---- MODULE Spec2Model ----
(***************************************************************************)
(* A model of the geometric occupancy engine of CarSurveillance:           *)
(*   utils.py            Point, Line, Box (check_point_inside)             *)
(*   image_utils.py      warp_perspective, warp_point_using_matrix         *)
(*   image_processor.py  get_image_with_cars_from_quadrilateral,           *)
(*                       check_parking_spaces,                             *)
(*                       count_cars_traffic_light_queue                    *)
(*                                                                         *)
(* An outcome of a call is a record [exc, val]: exc = "none" and val the   *)
(* returned value, or exc the name of the exception that was raised.       *)
(* Rasters are left out: no modelled decision reads a pixel.               *)
(***************************************************************************)
EXTENDS Integers, Sequences, FiniteSets, TLC

VARIABLES
    op,                  \* the operation that ran last, "none" before any
    ret,                 \* its outcome
    quadrilateral,       \* check_point_inside: self
    point,               \* check_point_inside: the argument
    src_points,          \* warp_perspective: the argument src_points
    dst_points,          \* warp_perspective: the argument dst_points
    PARKING_BOX,         \* ImageProcessor.PARKING_BOX
    TRAFFIC_LIGHT_QUEUE, \* ImageProcessor.TRAFFIC_LIGHT_QUEUE
    PARKING_LINES,       \* ImageProcessor.PARKING_LINES
    car_points,          \* the caller's list of car centres (mutable, shared)
    warped_car_points,   \* the local warped_car_points of the last evaluation
    calls,               \* the evaluations made so far: what each was handed
                         \* and what it gave back, in order
    query_lines,         \* task1: the lines of the query file
    task_name,           \* task_to_results: the task that is run
    files_dict,          \* task_to_results: the items found, in order
    file_idx,            \* task_to_results: the item the loop is at
    driver_pc,           \* task_to_results: "idle", "loop", "done", "raised"
    results,             \* task_to_results: the items whose results file
                         \* has been written
    video,               \* task2, task4: the video file
    cap,                 \* the cv2.VideoCapture: "none", "open", "released"
    pc,                  \* task2, task4: the position in the task
    frame_idx,           \* read_video_frames: the index of the next read
    last_frame,          \* task2, task4: the frame kept for the evaluation
    evaluated            \* the frames handed to the evaluation, in order

evalVars == <<op, ret, quadrilateral, point, src_points, dst_points,
              PARKING_BOX, TRAFFIC_LIGHT_QUEUE, PARKING_LINES, car_points,
              warped_car_points>>
driverVars == <<task_name, files_dict, file_idx, driver_pc, results>>
videoVars == <<video, cap, pc, frame_idx, last_frame, evaluated>>

vars == <<op, ret, quadrilateral, point, src_points, dst_points, PARKING_BOX,
          TRAFFIC_LIGHT_QUEUE, PARKING_LINES, car_points, warped_car_points,
          calls, query_lines, task_name, files_dict, file_idx, driver_pc,
          results, video, cap, pc, frame_idx, last_frame, evaluated>>

(***************************************************************************)
(* Bounds of the model.                                                    *)
(***************************************************************************)
MaxX == 2            \* corners of a tested quadrilateral have x in 0..MaxX
MaxY == 1            \* ... and y in 0..MaxY; tested points reach one beyond
CentroidMax == 3     \* corners of the centroid check lie in (0..CentroidMax)^2
MaxCorners == 5      \* longest corner list handed to warp_perspective
MaxCars == 4         \* longest list of car points handed to an evaluation
MaxCalls == 3        \* most evaluations a caller that records them makes
MaxCallCars == 2     \* longest list of car points such a caller hands over
MaxOrderCars == 3    \* longest list of car points whose orders are compared
MaxQueryLines == 3   \* most lines of a query file
MaxTaskCars == 1     \* most cars the detector finds for task1
MaxFiles == 2        \* most items of a task folder
MaxFrames == 3       \* most frames a video declares or holds
MaxQueuePoints == 4  \* most warped points handed to the queue walk
MaxThreshold == 3    \* band thresholds are drawn from 0..MaxThreshold and
                     \* the two values at the far edge of the frame
MaxBandPoints == 2   \* most warped points handed to the band policy

(***************************************************************************)
(* Outcomes and arithmetic helpers.                                        *)
(***************************************************************************)
Return(v) == [exc |-> "none", val |-> v]
Raise(e) == [exc |-> e, val |-> <<>>]

Min2(a, b) == IF a <= b THEN a ELSE b
Max2(a, b) == IF a >= b THEN a ELSE b

(***************************************************************************)
(* Natural numbers of any size: a magnitude is a sequence of limbs in base *)
(* BigBase = 2^LimbBits, least significant first, without leading zero     *)
(* limbs. The mantissa of a double and the products of two mantissas       *)
(* exceed the model's 32-bit integers.                                     *)
(***************************************************************************)
LimbBits == 14
BigBase == 2 ^ LimbBits

Limb(m, i) == IF 1 <= i /\ i <= Len(m) THEN m[i] ELSE 0

\* The largest number of a nonempty finite set of integers.
MaxOf(S) == CHOOSE n \in S : \A k \in S : k <= n

\* m without its leading zero limbs.
MagTrim(m) ==
    SubSeq(m, 1, MaxOf({0} \cup {i \in 1..Len(m) : m[i] # 0}))

RECURSIVE MagOfNat(_)
MagOfNat(n) ==
    IF n = 0 THEN <<>> ELSE <<n % BigBase>> \o MagOfNat(n \div BigBase)

\* The natural number of a magnitude that fits the model's integers.
RECURSIVE MagToNat(_)
MagToNat(m) ==
    IF m = <<>> THEN 0 ELSE Head(m) + BigBase * MagToNat(Tail(m))

\* -1, 0 or 1 as a < b, a = b or a > b: the highest limb that differs
\* decides.
MagCmp(a, b) ==
    IF Len(a) # Len(b) THEN (IF Len(a) < Len(b) THEN -1 ELSE 1)
    ELSE LET D == {i \in 1..Len(a) : a[i] # b[i]}
         IN  IF D = {} THEN 0
             ELSE IF a[MaxOf(D)] < b[MaxOf(D)] THEN -1 ELSE 1

\* a + b. Limb k takes a carry when a limb below it overflows and the
\* limbs between the two are full.
MagAdd(a, b) ==
    IF a = <<>> THEN b
    ELSE IF b = <<>> THEN a
    ELSE LET n == Max2(Len(a), Len(b)) + 1
             t(i) == Limb(a, i) + Limb(b, i)
             carry(k) ==
                 IF \E j \in 1..(k - 1) :
                        /\ t(j) >= BigBase
                        /\ \A i \in (j + 1)..(k - 1) : t(i) >= BigBase - 1
                 THEN 1 ELSE 0
         IN  MagTrim([k \in 1..n |-> (t(k) + carry(k)) % BigBase])

\* a - b for a >= b. Limb k lends when a limb below it falls short and the
\* limbs between the two are empty.
MagSub(a, b) ==
    IF b = <<>> THEN a
    ELSE LET t(i) == a[i] - Limb(b, i)
             borrow(k) ==
                 IF \E j \in 1..(k - 1) :
                        /\ t(j) < 0
                        /\ \A i \in (j + 1)..(k - 1) : t(i) <= 0
                 THEN 1 ELSE 0
         IN  MagTrim([k \in 1..Len(a) |->
                         (t(k) - borrow(k) + BigBase) % BigBase])

\* m * BigBase^n
MagShiftLimbs(m, n) == IF m = <<>> THEN m ELSE [i \in 1..n |-> 0] \o m

\* a * d for a limb d: the low halves of the products of the limbs, plus
\* their high halves one limb up.
MagMulLimb(a, d) ==
    IF a = <<>> \/ d = 0 THEN <<>>
    ELSE IF d = 1 THEN a
    ELSE MagAdd(MagTrim([i \in 1..Len(a) |-> (a[i] * d) % BigBase]),
                MagShiftLimbs(
                    MagTrim([i \in 1..Len(a) |-> (a[i] * d) \div BigBase]),
                    1))

\* The sum of the products a[i] * b[k + 1 - i] from limb i of a on: the
\* coefficient of BigBase^(k - 1) in a * b, for i at most the first limb of
\* a that meets a limb of b. It fits the model's integers when a or b has
\* at most 7 limbs.
RECURSIVE MagMulColumn(_, _, _, _)
MagMulColumn(a, b, k, i) ==
    IF i > Len(a) \/ i > k THEN 0
    ELSE a[i] * Limb(b, k + 1 - i) + MagMulColumn(a, b, k, i + 1)

\* a * b, for a or b of at most 7 limbs: the coefficients, each one in
\* three limbs, added up.
MagMul(a, b) ==
    IF a = <<>> \/ b = <<>> THEN <<>>
    ELSE
    LET n == Len(a) + Len(b)
        c == [k \in 1..n |-> MagMulColumn(a, b, k, Max2(1, k + 1 - Len(b)))]
    IN  MagAdd(MagAdd(MagTrim([k \in 1..n |-> c[k] % BigBase]),
                      MagShiftLimbs(
                          MagTrim([k \in 1..n |->
                                      (c[k] \div BigBase) % BigBase]), 1)),
               MagShiftLimbs(
                   MagTrim([k \in 1..n |-> c[k] \div (BigBase * BigBase)]),
                   2))

\* floor(log2(n)) for 1 <= n < 2^30.
Log2Floor(n) == CHOOSE k \in 0..29 : 2 ^ k <= n /\ n < 2 ^ (k + 1)

\* The number of binary digits of a magnitude.
BitLen(m) ==
    IF m = <<>> THEN 0
    ELSE LimbBits * (Len(m) - 1) + Log2Floor(m[Len(m)]) + 1

\* m * 2^s: limb i takes the low bits of the limb s \div LimbBits places
\* below it and the high bits of the one before that.
MagShiftLeft(m, s) ==
    IF m = <<>> \/ s = 0 THEN m
    ELSE
    LET n == s \div LimbBits
        b == s % LimbBits
    IN  MagTrim([i \in 1..(Len(m) + n + 1) |->
                    ((Limb(m, i - n) * 2 ^ b) % BigBase)
                    + ((Limb(m, i - n - 1) * 2 ^ b) \div BigBase)])

\* floor(m / 2^s)
MagShiftRight(m, s) ==
    IF m = <<>> \/ s = 0 THEN m
    ELSE
    LET n == s \div LimbBits
        b == s % LimbBits
    IN  MagTrim([i \in 1..Max2(0, Len(m) - n) |->
                    (m[i + n] \div 2 ^ b)
                    + (Limb(m, i + n + 1) % 2 ^ b) * 2 ^ (LimbBits - b)])

\* The largest d <= est with b * d <= r.
RECURSIVE QuotientLimbFrom(_, _, _)
QuotientLimbFrom(r, b, est) ==
    IF MagCmp(MagMulLimb(b, est), r) > 0 THEN QuotientLimbFrom(r, b, est - 1)
    ELSE est

\* floor(r / b) for r < b * BigBase and b with its highest limb at least
\* BigBase / 2: the quotient of the two highest limbs of r by the highest
\* limb of b is that number or up to 2 more.
QuotientLimb(r, b) ==
    QuotientLimbFrom(r, b,
        Min2(BigBase - 1,
             (Limb(r, Len(b) + 1) * BigBase + Limb(r, Len(b))) \div b[Len(b)]))

\* The long division of the limbs i, i - 1, ... 1 of a by b, both times 2^s,
\* after the limbs above them have given the quotient limbs q and left r.
RECURSIVE MagDivFrom(_, _, _, _, _, _)
MagDivFrom(a, b, s, i, q, r) ==
    IF i = 0 THEN [q |-> MagTrim(q), r |-> MagShiftRight(r, s)]
    ELSE LET rem == MagTrim(<<Limb(a, i)>> \o r)
             d == QuotientLimb(rem, b)
         IN  IF d = 0 THEN MagDivFrom(a, b, s, i - 1, <<0>> \o q, rem)
             ELSE MagDivFrom(a, b, s, i - 1, <<d>> \o q,
                             MagSub(rem, MagMulLimb(b, d)))

\* Quotient and remainder of a by b, for b # 0: a and b times the power of
\* 2 that brings the highest limb of b to BigBase / 2 or more have the same
\* quotient, and that power of 2 times the remainder. The long division
\* starts at the limb of a that gives the first limb of the quotient: the
\* limbs above it, one fewer than b has, are less than b.
MagDivMod(a, b) ==
    LET s == LimbBits - 1 - Log2Floor(b[Len(b)])
        n == MagShiftLeft(a, s)
        i == Max2(0, Len(n) + 1 - Len(b))
    IN  MagDivFrom(n, MagShiftLeft(b, s), s, i, <<>>, SubSeq(n, i + 1, Len(n)))

\* The number of zero bits a nonzero magnitude ends with.
TrailingZeros(m) ==
    LET i == CHOOSE j \in 1..Len(m) :
                 m[j] # 0 /\ \A k \in 1..(j - 1) : m[k] = 0
    IN  LimbBits * (i - 1)
        + (CHOOSE k \in 0..(LimbBits - 1) :
               m[i] % 2 ^ k = 0 /\ m[i] % 2 ^ (k + 1) # 0)

\* m / 2^s for s >= 1, rounded to the nearest integer, a tie to the even
\* one: half of 2^s is added when the quotient is odd, and one less than
\* half when it is even, before the division.
RoundShift(m, s) ==
    MagShiftRight(
        MagAdd(m, IF (Limb(m, s \div LimbBits + 1) \div 2 ^ (s % LimbBits)) % 2 = 1
                  THEN MagShiftLeft(<<1>>, s - 1)
                  ELSE MagSub(MagShiftLeft(<<1>>, s - 1), <<1>>)),
        s)

(***************************************************************************)
(* IEEE 754 binary floating point, as the C doubles and floats of OpenCV   *)
(* and the float32 of numpy. A finite value is (-1)^neg * mag * 2^exp with *)
(* mag odd, or zero; the sign of a zero is not kept, no operation of the   *)
(* code dividing by a zero or printing one.                                *)
(***************************************************************************)
Zero == [cls |-> "fin", neg |-> FALSE, mag |-> <<>>, exp |-> 0]
Inf(neg) == [cls |-> "inf", neg |-> neg, mag |-> <<>>, exp |-> 0]
NaN == [cls |-> "nan", neg |-> FALSE, mag |-> <<>>, exp |-> 0]

\* (-1)^neg * m * 2^e, exactly.
Finite(neg, m, e) ==
    IF m = <<>> THEN Zero
    ELSE LET t == TrailingZeros(m)
         IN  [cls |-> "fin", neg |-> neg, mag |-> MagShiftRight(m, t),
              exp |-> e + t]

\* n * 2^k for integers n and k.
Scaled(n, k) == Finite(n < 0, MagOfNat(IF n < 0 THEN -n ELSE n), k)

\* (-1)^neg * m * 2^e rounded to the nearest value of a format with prec
\* significant bits, least exponent emin and values below 2^emax, ties to
\* even; infinity from 2^emax on.
RoundBinary(neg, m, e, prec, emin, emax) ==
    IF m = <<>> THEN Zero
    ELSE LET s == Max2(BitLen(m) - prec, emin - e)
             q == IF s > BitLen(m) THEN <<>>
                  ELSE IF s > 0 THEN RoundShift(m, s) ELSE m
             e2 == IF s > 0 THEN e + s ELSE e
         IN  IF BitLen(q) + e2 > emax THEN Inf(neg) ELSE Finite(neg, q, e2)

DblRound(neg, m, e) == RoundBinary(neg, m, e, 53, -1074, 1024)

\* (float)a, numpy.float32(a)
Float32(a) ==
    IF a.cls # "fin" THEN a
    ELSE RoundBinary(a.neg, a.mag, a.exp, 24, -149, 128)

DblNeg(a) == IF a.cls = "nan" \/ a = Zero THEN a ELSE [a EXCEPT !.neg = ~a.neg]

\* a + b. An operand below a quarter of the last place of the other one
\* leaves the other one as it is; or else the exact sum is rounded.
DblAdd(a, b) ==
    LET e == Min2(a.exp, b.exp)
        ma == MagShiftLeft(a.mag, a.exp - e)
        mb == MagShiftLeft(b.mag, b.exp - e)
    IN  CASE a.cls = "nan" \/ b.cls = "nan" -> NaN
          [] a.cls = "inf" /\ b.cls = "inf" /\ a.neg # b.neg -> NaN
          [] a.cls = "inf" -> a
          [] b.cls = "inf" -> b
          [] a.mag = <<>> -> b
          [] b.mag = <<>> -> a
          [] BitLen(a.mag) + a.exp - (BitLen(b.mag) + b.exp) >= 56 -> a
          [] BitLen(b.mag) + b.exp - (BitLen(a.mag) + a.exp) >= 56 -> b
          [] OTHER ->
              DblRound(IF a.neg = b.neg \/ MagCmp(ma, mb) > 0 THEN a.neg
                       ELSE b.neg,
                       IF a.neg = b.neg THEN MagAdd(ma, mb)
                       ELSE IF MagCmp(ma, mb) > 0 THEN MagSub(ma, mb)
                       ELSE MagSub(mb, ma),
                       e)

\* a * b
DblMul(a, b) ==
    IF a.cls = "nan" \/ b.cls = "nan" THEN NaN
    ELSE IF a.cls = "inf" \/ b.cls = "inf"
         THEN (IF a = Zero \/ b = Zero THEN NaN ELSE Inf(a.neg # b.neg))
    ELSE DblRound(a.neg # b.neg, MagMul(a.mag, b.mag), a.exp + b.exp)

\* a / b: the quotient of the mantissas to 56 bits and more, with one more
\* bit that says whether a remainder was left, rounded. A mantissa of a
\* that is more than 58 bits longer than the one of b goes without its
\* last bits, which leave a remainder, the mantissa being odd.
DblDiv(a, b) ==
    LET k == IF BitLen(a.mag) - BitLen(b.mag) > 58
             THEN 58 + BitLen(b.mag) - BitLen(a.mag)
             ELSE Max2(0, 56 + BitLen(b.mag) - BitLen(a.mag))
        dm == MagDivMod(IF k < 0 THEN MagShiftRight(a.mag, -k)
                        ELSE MagShiftLeft(a.mag, k), b.mag)
    IN  CASE a.cls = "nan" \/ b.cls = "nan" -> NaN
          [] a.cls = "inf" /\ b.cls = "inf" -> NaN
          [] a.cls = "inf" -> Inf(a.neg # b.neg)
          [] b.cls = "inf" -> Zero
          [] a = Zero /\ b = Zero -> NaN
          [] b = Zero -> Inf(a.neg)
          [] a = Zero -> Zero
          [] OTHER ->
              DblRound(a.neg # b.neg,
                       MagAdd(MagShiftLeft(dm.q, 1),
                              IF dm.r = <<>> /\ k >= 0 THEN <<>> ELSE <<1>>),
                       a.exp - b.exp - k - 1)

\* fabs(a) > fabs(b): false when one of them is NaN.
DblAbsGreater(a, b) ==
    /\ a.cls # "nan" /\ b.cls # "nan"
    /\ CASE a.cls = "inf" -> b.cls # "inf"
         [] b.cls = "inf" \/ a.mag = <<>> -> FALSE
         [] b.mag = <<>> -> TRUE
         [] BitLen(a.mag) + a.exp # BitLen(b.mag) + b.exp ->
              BitLen(a.mag) + a.exp > BitLen(b.mag) + b.exp
         [] OTHER ->
              MagCmp(MagShiftLeft(a.mag, a.exp - Min2(a.exp, b.exp)),
                     MagShiftLeft(b.mag, b.exp - Min2(a.exp, b.exp))) > 0

(***************************************************************************)
(* Python's int has no bound. The membership test of Box takes the         *)
(* coordinates as ints of any size, an int being the finite value with     *)
(* that number (Scaled(n, 0) for one of the model's integers n); the rest  *)
(* of the model, whose coordinates are pixels and canonical units, writes  *)
(* them as the model's integers.                                           *)
(***************************************************************************)
\* a - b
IntSub(a, b) ==
    LET e == Min2(a.exp, b.exp)
        ma == MagShiftLeft(a.mag, a.exp - e)
        mb == MagShiftLeft(b.mag, b.exp - e)
    IN  IF a.neg # b.neg THEN Finite(a.neg, MagAdd(ma, mb), e)
        ELSE IF MagCmp(ma, mb) >= 0 THEN Finite(a.neg, MagSub(ma, mb), e)
        ELSE Finite(~a.neg, MagSub(mb, ma), e)

\* a * b: the product by seven limbs of b at a time.
RECURSIVE MagMulLong(_, _)
MagMulLong(a, b) ==
    IF Len(b) <= 7 THEN MagMul(a, b)
    ELSE MagAdd(MagMul(a, MagTrim(SubSeq(b, 1, 7))),
                MagShiftLimbs(MagMulLong(a, SubSeq(b, 8, Len(b))), 7))

IntMul(a, b) == Finite(a.neg # b.neg, MagMulLong(a.mag, b.mag), a.exp + b.exp)

\* a < b, exactly; b may be a float, infinite too, which Python compares
\* with an int by value.
IntLess(a, b) == IF b.cls = "inf" THEN ~b.neg ELSE IntSub(a, b).neg

(***************************************************************************)
(* utils.py: Point, Line, Box.                                             *)
(***************************************************************************)
\* Point.__init__ stores int(x), int(y); the model builds points from
\* integers, and takes int() of a float with int_of_float where one is
\* produced.
Point(x, y) == [x |-> x, y |-> y]

\* The point with its coordinates as ints of any size.
IntPoint(p) == Point(Scaled(p.x, 0), Scaled(p.y, 0))

Line(start, end) == [start |-> start, end |-> end]

\* Box.__init__: the four corners and the edge list
\* top_left -> top_right -> bottom_right -> bottom_left -> top_left.
Box(top_left, bottom_right, top_right, bottom_left) ==
    [top_left |-> top_left, bottom_right |-> bottom_right,
     top_right |-> top_right, bottom_left |-> bottom_left,
     lines |-> << Line(top_left, top_right), Line(top_right, bottom_right),
                  Line(bottom_right, bottom_left), Line(bottom_left, top_left) >>]

\* The box with the coordinates of its corners as ints of any size.
IntBox(q) ==
    Box(IntPoint(q.top_left), IntPoint(q.bottom_right),
        IntPoint(q.top_right), IntPoint(q.bottom_left))

\* image_processor.py builds its regions with Quadrilateral(...), the name the
\* region class has there; it is the four-corner region of Box.
Quadrilateral(top_left, bottom_right, top_right, bottom_left) ==
    Box(top_left, bottom_right, top_right, bottom_left)

\* The first test of the loop body: the point is on the horizontal segment
\* between the two vertices (chained ==, then min <= p_x <= max).
OnHorizontalEdge(cur, nxt, p) ==
    /\ cur.y = nxt.y /\ nxt.y = p.y
    /\ ~IntLess(p.x, IF IntLess(nxt.x, cur.x) THEN nxt.x ELSE cur.x)
    /\ ~IntLess(IF IntLess(cur.x, nxt.x) THEN nxt.x ELSE cur.x, p.x)

\* The left operand of the ray-casting test: the edge straddles the point's y,
\* half-open (cur.y <= p_y < nxt.y) or (nxt.y <= p_y < cur.y).
Straddles(cur, nxt, p) ==
    \/ (~IntLess(p.y, cur.y) /\ IntLess(p.y, nxt.y))
    \/ (~IntLess(p.y, nxt.y) /\ IntLess(p.y, cur.y))

\* p_x < (nxt.x - cur.x) * (p_y - cur.y) / (nxt.y - cur.y) + cur.x. The
\* product and the differences are ints; int / int raises
\* ZeroDivisionError for the divisor 0 and is the quotient rounded to the
\* nearest float otherwise, OverflowError when that is beyond the floats;
\* float + int takes the int to the nearest float, OverflowError again when
\* that is beyond the floats. The sum of the two floats is rounded and
\* raises nothing, and p_x, an int, is compared with it by value.
LeftOfEdge(cur, nxt, p) ==
    LET sum(q, x) ==
            IF q.cls = "inf" \/ x.cls = "inf" THEN Raise("OverflowError")
            ELSE Return(IntLess(p.x, DblAdd(q, x)))
    IN  IF nxt.y = cur.y THEN Raise("ZeroDivisionError")
        ELSE sum(DblDiv(IntMul(IntSub(nxt.x, cur.x), IntSub(p.y, cur.y)),
                        IntSub(nxt.y, cur.y)),
                 DblRound(cur.x.neg, cur.x.mag, cur.x.exp))

\* The whole `and` expression of the ray-casting test. Python's `and` does not
\* evaluate its right operand when the left one is false.
RayCrosses(cur, nxt, p) ==
    IF ~Straddles(cur, nxt, p) THEN Return(FALSE)
    ELSE LeftOfEdge(cur, nxt, p)

\* Box.check_point_inside: the loop over the edges, from edge i with the
\* parity flag `inside`.
RECURSIVE check_point_inside_loop(_, _, _, _)
check_point_inside_loop(self, p, i, inside) ==
    LET n == Len(self.lines)
    IN  IF i > n THEN Return(inside)
        ELSE LET current_line == self.lines[i]
                 next_line == self.lines[(i % n) + 1]
                 cur == current_line.start
                 nxt == next_line.start
                 toggle(hit) ==
                     IF hit.exc # "none" THEN hit
                     ELSE check_point_inside_loop(self, p, i + 1,
                              IF hit.val THEN ~inside ELSE inside)
             IN  IF OnHorizontalEdge(cur, nxt, p) THEN Return(TRUE)
                 ELSE toggle(RayCrosses(cur, nxt, p))

\* self.check_point_inside(point), for a box and a point with coordinates
\* that are ints of any size.
check_point_inside(self, p) == check_point_inside_loop(self, p, 1, FALSE)

(***************************************************************************)
(* list.sort(key=lambda p: p.y): a stable ascending sort by y.             *)
(***************************************************************************)
RECURSIVE InsertByY(_, _)
InsertByY(sorted, p) ==
    IF sorted = <<>> THEN <<p>>
    ELSE IF Head(sorted).y <= p.y
         THEN <<Head(sorted)>> \o InsertByY(Tail(sorted), p)
         ELSE <<p>> \o sorted

not_sorted(points) == points

RECURSIVE sort_by_y(_)
sort_by_y(points) ==
    IF points = <<>> THEN <<>>
    ELSE InsertByY(sort_by_y(SubSeq(points, 1, Len(points) - 1)),
                   points[Len(points)])

Reverse(s) == [i \in 1..Len(s) |-> s[Len(s) + 1 - i]]

(***************************************************************************)
(* cv2.getPerspectiveTransform and cv2.perspectiveTransform, as            *)
(* image_utils.py calls them: OpenCV's arithmetic on doubles, operation by *)
(* operation.                                                              *)
(***************************************************************************)
CanonicalSize == 1000

One == Scaled(1, 0)

\* DBL_EPSILON * 100, below which the LU decomposition takes a pivot for 0.
LUEpsilon == Scaled(25, -50)

\* FLT_EPSILON, up to which perspectiveTransform takes the divisor for 0.
FLT_EPSILON == Scaled(1, -23)

\* The system of cv::solve is the matrix M = (A | b): row i holds row i of A
\* and, after it, entry i of b; the LU decomposition treats the two alike.
\* A sequence built entry by entry is followed by \o <<>>, which makes it a
\* tuple of values.
Swap(s, i, k) == [s EXCEPT ![i] = s[k], ![k] = s[i]]

\* The row of the pivot of column i: the first of the rows from i on with
\* the largest absolute value in that column.
RECURSIVE LUPivot(_, _, _, _)
LUPivot(M, i, j, k) ==
    IF j > Len(M) THEN k
    ELSE IF DblAbsGreater(M[j][i], M[k][i]) THEN LUPivot(M, i, j + 1, j)
    ELSE LUPivot(M, i, j + 1, k)

\* A row below the pivot row after the elimination of column i:
\* A[j][c] += alpha * A[i][c] for the columns after i, b[j] += alpha * b[i].
LUEliminatedRow(row, pivot, i, alpha) ==
    [c \in 1..Len(row) |->
        IF c <= i THEN row[c]
        ELSE DblAdd(row[c], DblMul(alpha, pivot[c]))] \o <<>>

\* M, with its pivot row at i, after the elimination of column i:
\* alpha = A[j][i] * d for each row j below i, d being -1 / A[i][i].
LUEliminated(M, i, d) ==
    [j \in 1..Len(M) |->
        IF j <= i THEN M[j]
        ELSE LUEliminatedRow(M[j], M[i], i, DblMul(M[j][i], d))] \o <<>>

\* Column i of the forward elimination of s = [ok, M] with the pivot in row
\* k; ok is false when the pivot is below LUEpsilon in absolute value.
LUEliminateColumn(s, i, k) ==
    IF DblAbsGreater(LUEpsilon, s.M[k][i]) THEN [s EXCEPT !.ok = FALSE]
    ELSE [ok |-> TRUE,
          M |-> LUEliminated(Swap(s.M, i, k), i,
                             DblDiv(DblNeg(One), s.M[k][i]))]

\* s -= A[i][k] * x[k] for the columns from k on; xs holds the entries of
\* the solution from the last one down to entry i + 1.
RECURSIVE LURowSum(_, _, _, _, _)
LURowSum(M, xs, i, k, s) ==
    IF k > Len(M) THEN s
    ELSE LURowSum(M, xs, i, k + 1,
                  DblAdd(s, DblNeg(DblMul(M[i][k], xs[Len(M) + 1 - k]))))

\* The back substitution: the entries of the solution from the last one
\* down to entry i.
RECURSIVE LUBackSubstitute(_, _)
LUBackSubstitute(M, i) ==
    IF i > Len(M) THEN <<>>
    ELSE LET xs == LUBackSubstitute(M, i + 1)
         IN  Append(xs, DblDiv(LURowSum(M, xs, i, i + 1, M[i][Len(M) + 1]),
                               M[i][i]))

\* cv::LU from column i on: the forward elimination with partial pivoting
\* and the back substitution; the solution is zeroed when a pivot is taken
\* for 0.
RECURSIVE LU(_, _)
LU(s, i) ==
    IF ~s.ok THEN [k \in 1..Len(s.M) |-> Zero] \o <<>>
    ELSE IF i > Len(s.M) THEN Reverse(LUBackSubstitute(s.M, 1))
    ELSE LU(LUEliminateColumn(s, i, LUPivot(s.M, i, i + 1, i)), i + 1)

\* cv::solve(A, b, x, DECOMP_LU) on doubles, M being (A | b).
solve(M) == LU([ok |-> TRUE, M |-> M], 1)

\* numpy.float32([point.to_tuple() for point in points]): the coordinates,
\* which are ints, as floats.
float32(points) ==
    [i \in 1..Len(points) |->
        << Float32(Scaled(points[i].x, 0)),
           Float32(Scaled(points[i].y, 0)) >>] \o <<>>

\* The rows of a 3 x 3 matrix from its nine entries.
Mat(h) == << SubSeq(h, 1, 3), SubSeq(h, 4, 6), SubSeq(h, 7, 9) >>

\* cv2.getPerspectiveTransform(src, dst) on float32 corners: the solution H,
\* with h33 = 1, of the eight equations that make H * (x, y, 1) a multiple of
\* (X, Y, 1) for each corner (x, y) = src[i] and its destination
\* (X, Y) = dst[i]: rows 1..4 are the equations of X, rows 5..8 those of Y.
\* The coefficients -x * X are products of floats; the system is solved in
\* doubles.
getPerspectiveTransform(src, dst) ==
    Mat(Append(
        solve([i \in 1..8 |->
                  (IF i <= 4
                   THEN << src[i][1], src[i][2], One, Zero, Zero, Zero >>
                   ELSE << Zero, Zero, Zero, src[i - 4][1], src[i - 4][2],
                           One >>)
                  \o << Float32(DblMul(DblNeg(src[((i - 1) % 4) + 1][1]),
                                       dst[((i - 1) % 4) + 1][(i + 3) \div 4])),
                        Float32(DblMul(DblNeg(src[((i - 1) % 4) + 1][2]),
                                       dst[((i - 1) % 4) + 1][(i + 3) \div 4])),
                        dst[((i - 1) % 4) + 1][(i + 3) \div 4] >>] \o <<>>),
        One))

\* int(a) for a float a: the integer part, OverflowError for an infinity
\* and ValueError for a NaN.
int_of_float(a) ==
    IF a.cls = "inf" THEN Raise("OverflowError")
    ELSE IF a.cls = "nan" THEN Raise("ValueError")
    ELSE Return((IF a.neg THEN -1 ELSE 1)
                * MagToNat(IF a.exp >= 0 THEN MagShiftLeft(a.mag, a.exp)
                           ELSE MagShiftRight(a.mag, -a.exp)))

\* The floats cv2.perspectiveTransform stores for a point whose products
\* with the three rows of the matrix are t[1], t[2] and t[3].
PerspectiveDivide(t) ==
    IF DblAbsGreater(t[3], FLT_EPSILON)
    THEN [k \in 1..2 |-> Float32(DblMul(t[k], DblDiv(One, t[3])))] \o <<>>
    ELSE <<Zero, Zero>>

\* cv2.perspectiveTransform of one float32 point p = (x, y) by the matrix
\* m: the pair of floats it stores.
perspectiveTransform(p, m) ==
    PerspectiveDivide(
        [k \in 1..3 |-> DblAdd(DblAdd(DblMul(p[1], m[k][1]),
                                      DblMul(p[2], m[k][2])),
                               m[k][3])] \o <<>>)

(***************************************************************************)
(* image_utils.py: warp_perspective, warp_point_using_matrix.              *)
(***************************************************************************)
\* The default destination corners of warp_perspective.
DefaultDstPoints ==
    << Point(CanonicalSize, CanonicalSize), Point(0, CanonicalSize),
       Point(0, 0), Point(CanonicalSize, 0) >>

\* ImageUtils.warp_perspective(image, src_points, dst_points): the outcome,
\* with the returned pair (warped_image, warp_matrix) reduced to the matrix.
warp_perspective_unchecked(src, dst) ==
    IF Len(src) < 4 \/ (Len(dst) # 0 /\ Len(dst) < 4) THEN Raise("ValueError")
    ELSE Return(getPerspectiveTransform(
                    float32(SubSeq(src, 1, 4)),
                    float32(IF Len(dst) = 0 THEN DefaultDstPoints
                            ELSE SubSeq(dst, 1, 4))))

warp_perspective(src, dst) ==
    IF Len(src) # 4 \/ (Len(dst) # 0 /\ Len(dst) # 4) THEN Raise("ValueError")
    ELSE Return(getPerspectiveTransform(
                    float32(src),
                    float32(IF Len(dst) = 0 THEN DefaultDstPoints ELSE dst)))

\* Point(x, y) of a pair of floats: int() of the two, the x first.
PointOfFloats(w) ==
    IF w[1].cls # "fin" THEN int_of_float(w[1])
    ELSE IF w[2].cls # "fin" THEN int_of_float(w[2])
    ELSE Return(Point(int_of_float(w[1]).val, int_of_float(w[2]).val))

\* ImageUtils.warp_point_using_matrix: the point as float32, transformed,
\* and the Point of the two floats.
warp_point_using_matrix(p, M) ==
    PointOfFloats(perspectiveTransform(float32(<<p>>)[1], M))

(***************************************************************************)
(* image_processor.py: the region-scoped extraction and the two policies.  *)
(***************************************************************************)
\* The calibrated regions: the class attributes PARKING_BOX and
\* TRAFFIC_LIGHT_QUEUE.
ParkingBoxCalibration ==
    Quadrilateral(Point(410, 230), Point(915, 500), Point(455, 210),
                  Point(915, 600))
TrafficLightQueueCalibration ==
    Quadrilateral(Point(210, 110), Point(425, 250), Point(260, 105),
                  Point(360, 250))
RegionCalibrations == { ParkingBoxCalibration, TrafficLightQueueCalibration }

\* Car centres in image space. The first five lie in the parking box and
\* warp to y = 5, 10, 100, 150 and 500, the next four lie in the traffic
\* light queue and warp to y = 30, 100, 140 and 400, the last one lies in
\* neither region.
CarPoints ==
    { Point(416, 229), Point(417, 230), Point(436, 249), Point(450, 259),
      Point(576, 350),
      Point(221, 113), Point(225, 122), Point(230, 127), Point(265, 161),
      Point(100, 50) }

\* The calls the extraction makes are pure functions of the region and the
\* point; over the calibrated regions and the car points of the model each
\* is evaluated once and looked up afterwards, and evaluated in place for
\* any other region or point.
\*   ImageUtils.warp_perspective(image, src_points), with src_points =
\*   [bottom_left, bottom_right, top_right, top_left]
quadrilateral_warp(q) ==
    warp_perspective(<< q.bottom_left, q.bottom_right,
                        q.top_right, q.top_left >>, <<>>)

region_inside_table ==
    [q \in RegionCalibrations |->
        [p \in CarPoints |-> check_point_inside(IntBox(q), IntPoint(p))]]

region_warp_table == [q \in RegionCalibrations |-> quadrilateral_warp(q)]

region_warped_table ==
    [q \in RegionCalibrations |->
        [p \in CarPoints |->
            warp_point_using_matrix(p, region_warp_table[q].val)]]

\*   quadrilateral.check_point_inside(point)
region_inside(q, p) ==
    IF q \in RegionCalibrations /\ p \in CarPoints
    THEN region_inside_table[q][p]
    ELSE check_point_inside(IntBox(q), IntPoint(p))

region_warp(q) ==
    IF q \in RegionCalibrations THEN region_warp_table[q]
    ELSE quadrilateral_warp(q)

\*   ImageUtils.warp_point_using_matrix(point, warp_matrix), warp_matrix
\*   being the matrix M of the region q
region_warped(q, M, p) ==
    IF q \in RegionCalibrations /\ p \in CarPoints
    THEN region_warped_table[q][p]
    ELSE warp_point_using_matrix(p, M)

\* A loop that makes one call for each entry of a list, the calls having
\* the outcomes outs: the first exception raised ends it, or else it has
\* the values the calls returned.
loop_outcome(outs) ==
    LET raised == { k \in 1..Len(outs) : outs[k].exc # "none" }
    IN  IF raised # {}
        THEN outs[CHOOSE k \in raised : \A j \in raised : k <= j]
        ELSE Return([k \in 1..Len(outs) |-> outs[k].val])

\* The loop that keeps the car points inside the quadrilateral, in order; a
\* raising test ends the loop with its exception.
points_inside_unfiltered(quad, points) == Return(points)

points_inside(quad, points) ==
    LET kept(tests) ==
            IF tests.exc # "none" THEN tests
            ELSE LET inside == { k \in 1..Len(points) : tests.val[k] }
                 IN  Return([i \in 1..Cardinality(inside) |->
                                points[CHOOSE k \in inside :
                                          Cardinality({ j \in inside : j <= k }) = i]]
                            \o <<>>)
    IN  kept(loop_outcome([k \in 1..Len(points) |->
                              region_inside(quad, points[k])] \o <<>>))

\* The call of warp_perspective with the outcome warp, and after it the
\* loop that warps the kept points, in order; a raising Point ends the loop
\* with its exception.
points_warped(quad, warp, kept) ==
    IF warp.exc # "none" THEN warp
    ELSE loop_outcome([k \in 1..Len(kept) |->
                          region_warped(quad, warp.val, kept[k])] \o <<>>)

\* ImageProcessor.get_image_with_cars_from_quadrilateral: the caller's list
\* is sorted in place, filtered, and the kept points are warped with the
\* matrix built from the region's corners. The returned pair is reduced to
\* the warped points; the outcome has one more field, `sorted`, the caller's
\* list as the call leaves it.
get_image_with_cars_from_quadrilateral(quad, points) ==
    LET sorted == sort_by_y(points)
        kept == points_inside(quad, sorted)
    IN  (IF kept.exc # "none" THEN kept
         ELSE points_warped(quad, region_warp(quad), kept.val))
        @@ [sorted |-> sorted]

\* The upper end of band i: the next line, or 1000 for the last band.
FarEdge == 1000

next_line_y_no_sentinel(lines, i) ==
    IF i < Len(lines) THEN lines[i + 1] ELSE lines[i]

next_line_y_always_far(lines, i) == FarEdge

next_line_y(lines, i) == IF i < Len(lines) THEN lines[i + 1] ELSE FarEdge

\* The inner loop of check_parking_spaces for band i.
occupied_half_open(lines, i, warped) ==
    \E k \in 1..Len(warped) :
        lines[i] <= warped[k].y /\ warped[k].y < next_line_y(lines, i)

occupied_vacuous(lines, i, warped) ==
    \A k \in 1..Len(warped) :
        lines[i] <= warped[k].y /\ warped[k].y <= next_line_y(lines, i)

occupied_first_band_only(lines, i, warped) ==
    \E k \in 1..Len(warped) :
        /\ lines[i] <= warped[k].y /\ warped[k].y <= next_line_y(lines, i)
        /\ \A h \in 1..(i - 1) :
              ~(lines[h] <= warped[k].y /\ warped[k].y <= next_line_y(lines, h))

occupied(lines, i, warped) ==
    \E k \in 1..Len(warped) :
        lines[i] <= warped[k].y /\ warped[k].y <= next_line_y(lines, i)

\* The list parking_spaces before parking_spaces.reverse().
bands_occupied(lines, warped) ==
    [i \in 1..Len(lines) |-> occupied(lines, i, warped)]

\* The list check_parking_spaces returns for the warped points.
parking_spaces_unreversed(lines, warped) == bands_occupied(lines, warped)

parking_spaces(lines, warped) == Reverse(bands_occupied(lines, warped))

\* The thresholds of count_cars_traffic_light_queue.
NearThreshold == 120
GapThreshold == 150

\* The walk over the sorted warped points from position i, `last_y` the y of
\* the last accepted car (0 while none is accepted), `n` the cars accepted.
RECURSIVE queue_walk_unseeded(_, _, _, _)
queue_walk_unseeded(sorted, i, last_y, n) ==
    IF i > Len(sorted) THEN n
    ELSE IF sorted[i].y < NearThreshold
            \/ (n > 0 /\ sorted[i].y - last_y < GapThreshold)
         THEN queue_walk_unseeded(sorted, i + 1, sorted[i].y, n + 1)
         ELSE n

\* The walk with the gap taken from the first accepted car.
RECURSIVE queue_walk_first_car(_, _, _, _)
queue_walk_first_car(sorted, i, last_y, n) ==
    IF i > Len(sorted) THEN n
    ELSE IF sorted[i].y < NearThreshold \/ sorted[i].y - last_y < GapThreshold
         THEN queue_walk_first_car(sorted, i + 1,
                                   IF n = 0 THEN sorted[i].y ELSE last_y,
                                   n + 1)
         ELSE n

RECURSIVE queue_walk(_, _, _, _)
queue_walk(sorted, i, last_y, n) ==
    IF i > Len(sorted) THEN n
    ELSE IF sorted[i].y < NearThreshold \/ sorted[i].y - last_y < GapThreshold
         THEN queue_walk(sorted, i + 1, sorted[i].y, n + 1)
         ELSE n

\* The walk over the warped points in the order they arrive.
cars_in_queue_unsorted(warped) == queue_walk(warped, 1, 0, 0)

\* len(cars_at_traffic_light) for the warped points.
cars_in_queue(warped) == queue_walk(sort_by_y(warped), 1, 0, 0)

(***************************************************************************)
(* main.py: task1. A string is the sequence of the Unicode code points of  *)
(* its characters: "2\n" is <<50, 10>>. The character classes are those of *)
(* the Unicode database of CPython 3.11 (version 14.0.0).                  *)
(***************************************************************************)
\* The characters with str.isspace() true, which str.strip() removes:
\* U+0009..U+000D, U+001C..U+0020, U+0085, U+00A0, U+1680, U+2000..U+200A,
\* U+2028, U+2029, U+202F, U+205F and U+3000.
Whitespace ==
    (9..13) \cup (28..32) \cup {133, 160, 5760} \cup (8192..8202)
        \cup {8232, 8233, 8239, 8287, 12288}

\* The digit zero of every script with decimal digits (category Nd); the
\* digits 1 to 9 of the script follow it.
DecimalZeros ==
    { 48, 1632, 1776, 1984, 2406, 2534, 2662, 2790, 2918, 3046, 3174, 3302,
      3430, 3558, 3664, 3792, 3872, 4160, 4240, 6112, 6160, 6470, 6608, 6784,
      6800, 6992, 7088, 7232, 7248, 42528, 43216, 43264, 43472, 43504, 43600,
      44016, 65296, 66720, 68912, 69734, 69872, 69942, 70096, 70384, 70736,
      70864, 71248, 71360, 71472, 71904, 72016, 72784, 73040, 73120, 92768,
      92864, 93008, 120782, 120792, 120802, 120812, 120822, 123200, 123632,
      125264, 130032 }

\* The characters with a digit value that are no decimal digits: the
\* superscripts and subscripts, the circled, parenthesized and dotted
\* digits, and the digits of scripts that write numbers without a zero.
OtherDigits ==
    (178..179) \cup {185} \cup (4969..4977) \cup {6618, 8304}
        \cup (8308..8313) \cup (8320..8329) \cup (9312..9320)
        \cup (9332..9340) \cup (9352..9360) \cup {9450} \cup (9461..9469)
        \cup {9471} \cup (10102..10110) \cup (10112..10120)
        \cup (10122..10130) \cup (68160..68163) \cup (69216..69224)
        \cup (69714..69722) \cup (127232..127242)

\* str.isdecimal() of one character
is_decimal(c) == \E z \in DecimalZeros : z <= c /\ c <= z + 9

\* The value of a decimal digit
decimal_value(c) == c - (CHOOSE z \in DecimalZeros : z <= c /\ c <= z + 9)

\* str.strip()
lstrip(str) ==
    LET kept == { k \in 1..Len(str) : str[k] \notin Whitespace }
    IN  IF kept = {} THEN <<>>
        ELSE SubSeq(str, CHOOSE k \in kept : \A j \in kept : k <= j, Len(str))

rstrip(str) ==
    LET kept == { k \in 1..Len(str) : str[k] \notin Whitespace }
    IN  IF kept = {} THEN <<>>
        ELSE SubSeq(str, 1, CHOOSE k \in kept : \A j \in kept : j <= k)

strip(str) == rstrip(lstrip(str))

\* str.isdigit(): the string is not empty and every character has a digit
\* value.
isdigit(str) ==
    /\ str # <<>>
    /\ \A k \in 1..Len(str) : is_decimal(str[k]) \/ str[k] \in OtherDigits

\* sys.int_info.default_max_str_digits
MaxStrDigits == 4300

\* A string of decimal digits without its leading zeros
significant(str) ==
    LET nonzero == { k \in 1..Len(str) : decimal_value(str[k]) # 0 }
    IN  IF nonzero = {} THEN <<>>
        ELSE SubSeq(str, CHOOSE k \in nonzero : \A j \in nonzero : k <= j,
                    Len(str))

\* The number a string of decimal digits writes, as a magnitude
RECURSIVE int_of_digits(_)
int_of_digits(str) ==
    IF str = <<>> THEN <<>>
    ELSE MagAdd(MagMulLimb(int_of_digits(SubSeq(str, 1, Len(str) - 1)), 10),
                MagOfNat(decimal_value(str[Len(str)])))

\* int(str) of a string with str.isdigit() true raises ValueError at a
\* digit that is no decimal digit and at more than MaxStrDigits digits.
int_raises(str) ==
    \/ \E k \in 1..Len(str) : ~is_decimal(str[k])
    \/ Len(str) > MaxStrDigits

\* int(str) of a string with str.isdigit() true: the number, an int of any
\* size, as its magnitude.
int(str) ==
    IF int_raises(str) THEN Raise("ValueError")
    ELSE Return(int_of_digits(significant(str)))

\* "".join(strings)
RECURSIVE join(_)
join(strings) ==
    IF strings = <<>> THEN <<>> ELSE Head(strings) \o join(Tail(strings))

\* list[idx] of Python for an int idx: a negative index counts from the end,
\* an index outside -len..len-1 raises IndexError.
list_getitem(list, idx) ==
    IF idx >= Len(list) \/ idx < -Len(list) THEN Raise("IndexError")
    ELSE Return(list[(IF idx < 0 THEN idx + Len(list) ELSE idx) + 1])

\* A list has fewer than 10^MaxIndexDigits entries.
MaxIndexDigits == 9

\* list[int(query) - offset]: IndexError without a look at the list for a
\* number of more than MaxIndexDigits digits.
list_getitem_int(list, query, offset) ==
    IF Len(significant(query)) > MaxIndexDigits THEN Raise("IndexError")
    ELSE list_getitem(list, MagToNat(int(query).val) - offset)

\* parking_spaces[int(query) - 1] if query.isdigit() else False
task1_status_no_offset(parking_spaces_, query) ==
    IF ~isdigit(query) THEN Return(FALSE)
    ELSE IF int_raises(query) THEN Raise("ValueError")
    ELSE list_getitem_int(parking_spaces_, query, 0)

task1_status(parking_spaces_, query) ==
    IF ~isdigit(query) THEN Return(FALSE)
    ELSE IF int_raises(query) THEN Raise("ValueError")
    ELSE list_getitem_int(parking_spaces_, query, 1)

\* The loop of task1 from position i (0-based, as range(1, len(queries))),
\* `queries` the list as the iterations before have left it; f" {status}"
\* is a blank and the digit 1 or 0.
RECURSIVE task1_loop(_, _, _)
task1_loop(parking_spaces_, queries, i) ==
    IF i >= Len(queries) THEN Return(join(queries))
    ELSE LET status == task1_status(parking_spaces_, queries[i + 1])
         IN  IF status.exc # "none" THEN status
             ELSE task1_loop(parking_spaces_,
                      [queries EXCEPT ![i + 1] =
                          @ \o <<32, IF status.val THEN 49 ELSE 48>>],
                      i + 1)

\* task1 after get_parking_spaces_status_from_image has returned
\* parking_spaces_, for the lines file.readlines() gives.
task1_report(parking_spaces_, lines) ==
    LET NotBlank(query) == strip(query) # <<>>
        kept == SelectSeq(lines, NotBlank)
        queries == [k \in 1..Len(kept) |-> strip(kept[k])]
    IN  task1_loop(parking_spaces_, queries, 1)

(***************************************************************************)
(* main.py: task_to_results. An item of files_dict says which of its files *)
(* exist (mp4, jpg, txt), whether the task can read its image or video,    *)
(* and the exception a query of its txt file has task1 raise: IndexError   *)
(* for an index beyond the parking spaces, ValueError for a digit int()    *)
(* does not take, "none" when every query is answered.                     *)
(***************************************************************************)
\* config.py
SAVE_TO_FOLDER_SWITCH == TRUE

\* callable_func.__code__.co_argcount
n_arguments(task) == IF task = "task1" THEN 2 ELSE 1

\* callable_func(test_file) or callable_func(test_file, txt_file): task3
\* returns None; the others raise ValueError (ImageUtils.load_image,
\* VideoUtils.load_video, VideoUtils.get_last_frame) when the file cannot be
\* read; task1 raises IndexError or ValueError at a query it cannot answer;
\* they return their result otherwise.
task_outcome(task, item) ==
    IF task = "task3" THEN Return("None")
    ELSE IF ~item.readable THEN Raise("ValueError")
    ELSE IF task = "task1" /\ item.query_error # "none"
    THEN Raise(item.query_error)
    ELSE Return("result")

\* The body of the loop up to `result`: the outcome "no test file", or the
\* value of result, or the exception the call raised.
iteration_result(task, item) ==
    IF ~(item.mp4 \/ item.jpg) THEN Return("no test file")
    ELSE IF n_arguments(task) = 1 THEN task_outcome(task, item)
    ELSE IF n_arguments(task) = 2 /\ item.txt THEN task_outcome(task, item)
    ELSE Return("None")

(***************************************************************************)
(* Inputs of the model.                                                    *)
(***************************************************************************)
NoOutcome == [exc |-> "none", val |-> <<>>]

\* All sequences over S of length at most n.
SeqsUpTo(S, n) == UNION { [1..k -> S] : k \in 0..n }

Corners == { Point(x, y) : x \in 0..MaxX, y \in 0..MaxY }
TestPoints == { Point(x, y) : x \in (-1)..(MaxX + 1), y \in (-1)..(MaxY + 1) }
CentroidCorners == { Point(x, y) : x \in 0..CentroidMax, y \in 0..CentroidMax }

\* The point (base + p.x * unit, p.y), its coordinates ints of any size: the
\* points of a grid where pixels are (base 0, unit 1), where the floats are
\* two apart (base 2^53 + 1 or 2^53 + 2, unit 1), and where the largest
\* floats are (base 0, unit 2^1023).
FramePoint(f, p) ==
    Point(IntSub(f.base, IntMul(Scaled(-p.x, 0), f.unit)), Scaled(p.y, 0))

\* Band lists: the repository's PARKING_LINES and the two of the examples.
ReferenceLines == <<10, 100, 192, 290, 385, 480, 580, 680, 785, 890>>
LineCalibrations == { ReferenceLines, <<0, 50>>, <<10, 100, 192>> }

\* Corner lists for warp_perspective: the corners of a square and the middle
\* of its top edge, in any order and number.
WarpCorners == { Point(0, 0), Point(1, 0), Point(2, 0), Point(2, 2), Point(0, 2) }

\* A destination list of each length: prefixes of the default corners, which
\* a fifth and later points extend.
DstOfLength(n) ==
    [k \in 1..n |-> IF k <= 4 THEN DefaultDstPoints[k] ELSE Point(k, k)]

\* last_frame = None
NoFrame == -1

\* No batch run and no video task is under way.
DriverIdle ==
    /\ task_name = "task3"
    /\ files_dict = <<>>
    /\ file_idx = 1
    /\ driver_pc = "idle"
    /\ results = {}

VideoIdle ==
    /\ video = [opens |-> TRUE, n_frames |-> 0, readable |-> 0]
    /\ cap = "none"
    /\ pc = "idle"
    /\ frame_idx = 0
    /\ last_frame = NoFrame
    /\ evaluated = <<>>

NoCallYet ==
    /\ op = "none"
    /\ ret = NoOutcome
    /\ warped_car_points = <<>>
    /\ calls = <<>>

Idle ==
    /\ NoCallYet
    /\ query_lines = <<>>
    /\ DriverIdle
    /\ VideoIdle

InitInside ==
    /\ Idle
    /\ \E f \in { [base |-> Zero, unit |-> Scaled(1, 0)],
                  [base |-> IntSub(Scaled(1, 53), Scaled(-1, 0)),
                   unit |-> Scaled(1, 0)],
                  [base |-> Zero, unit |-> Scaled(1, 1023)] } :
          /\ \E tl, tr, br, bl \in Corners :
                quadrilateral = Box(FramePoint(f, tl), FramePoint(f, br),
                                    FramePoint(f, tr), FramePoint(f, bl))
          /\ \E p \in TestPoints : point = FramePoint(f, p)
    /\ src_points = <<>> /\ dst_points = <<>>
    /\ PARKING_BOX = ParkingBoxCalibration
    /\ TRAFFIC_LIGHT_QUEUE = TrafficLightQueueCalibration
    /\ PARKING_LINES = ReferenceLines
    /\ car_points = <<>>

\* Quadrilaterals whose corner mean has integer coordinates, with that mean.
InitCentroid ==
    /\ Idle
    /\ \E f \in { [base |-> Zero, unit |-> Scaled(1, 0)],
                  [base |-> IntSub(Scaled(1, 53), Scaled(-2, 0)),
                   unit |-> Scaled(1, 0)] } :
       \E tl, tr, br, bl \in CentroidCorners :
          /\ (tl.x + tr.x + br.x + bl.x) % 4 = 0
          /\ (tl.y + tr.y + br.y + bl.y) % 4 = 0
          /\ quadrilateral = Box(FramePoint(f, tl), FramePoint(f, br),
                                 FramePoint(f, tr), FramePoint(f, bl))
          /\ point = FramePoint(f, Point((tl.x + tr.x + br.x + bl.x) \div 4,
                                         (tl.y + tr.y + br.y + bl.y) \div 4))
    /\ src_points = <<>> /\ dst_points = <<>>
    /\ PARKING_BOX = ParkingBoxCalibration
    /\ TRAFFIC_LIGHT_QUEUE = TrafficLightQueueCalibration
    /\ PARKING_LINES = ReferenceLines
    /\ car_points = <<>>

InitWarp ==
    /\ Idle
    /\ src_points \in SeqsUpTo(WarpCorners, MaxCorners)
    /\ dst_points \in { DstOfLength(n) : n \in 0..MaxCorners }
    /\ quadrilateral = ParkingBoxCalibration /\ point = Point(0, 0)
    /\ PARKING_BOX = ParkingBoxCalibration
    /\ TRAFFIC_LIGHT_QUEUE = TrafficLightQueueCalibration
    /\ PARKING_LINES = ReferenceLines
    /\ car_points = <<>>

Init ==
    /\ Idle
    /\ PARKING_BOX = ParkingBoxCalibration
    /\ TRAFFIC_LIGHT_QUEUE = TrafficLightQueueCalibration
    /\ PARKING_LINES \in LineCalibrations
    /\ car_points \in SeqsUpTo(CarPoints, MaxCars)
    /\ quadrilateral = ParkingBoxCalibration /\ point = Point(0, 0)
    /\ src_points = <<>> /\ dst_points = <<>>

\* Band lists as the contract of the band policy has them: thresholds of the
\* canonical frame, strictly increasing.
RECURSIVE Ascending(_)
Ascending(S) ==
    IF S = {} THEN <<>>
    ELSE LET m == CHOOSE x \in S : \A y \in S : x <= y
         IN  <<m>> \o Ascending(S \ {m})

BandLists ==
    { Ascending(S) : S \in SUBSET ((0..MaxThreshold) \cup {FarEdge - 1, FarEdge}) }

\* Warped points at, between and beyond the thresholds.
BandPoints ==
    { Point(0, y) :
        y \in ((-1)..(MaxThreshold + 1)) \cup {FarEdge - 1, FarEdge, FarEdge + 1} }

\* Warped points for the queue walk: around the near threshold, a gap of
\* GapThreshold and one less, the far edge, and a point before the frame.
QueuePoints ==
    { Point(0, y) :
        y \in { -100, 0, NearThreshold - 1, NearThreshold, GapThreshold - 1,
                GapThreshold, 2 * GapThreshold - 2, 2 * GapThreshold - 1,
                FarEdge } }

\* The extraction has handed its warped points, in any order, to the walk.
InitQueue ==
    /\ op = "none" /\ ret = NoOutcome /\ calls = <<>>
    /\ warped_car_points \in SeqsUpTo(QueuePoints, MaxQueuePoints)
    /\ query_lines = <<>>
    /\ DriverIdle
    /\ VideoIdle
    /\ PARKING_BOX = ParkingBoxCalibration
    /\ TRAFFIC_LIGHT_QUEUE = TrafficLightQueueCalibration
    /\ PARKING_LINES = ReferenceLines
    /\ car_points = <<>>
    /\ quadrilateral = ParkingBoxCalibration /\ point = Point(0, 0)
    /\ src_points = <<>> /\ dst_points = <<>>

InitBands ==
    /\ NoCallYet
    /\ PARKING_LINES \in BandLists
    /\ car_points = <<>>
    /\ PARKING_BOX = ParkingBoxCalibration
    /\ TRAFFIC_LIGHT_QUEUE = TrafficLightQueueCalibration
    /\ quadrilateral = ParkingBoxCalibration /\ point = Point(0, 0)
    /\ src_points = <<>> /\ dst_points = <<>>
    /\ query_lines = <<>>
    /\ DriverIdle
    /\ VideoIdle

\* Lists short enough to go through all their orders.
InitOrder ==
    /\ Idle
    /\ PARKING_BOX = ParkingBoxCalibration
    /\ TRAFFIC_LIGHT_QUEUE = TrafficLightQueueCalibration
    /\ PARKING_LINES \in LineCalibrations
    /\ car_points \in SeqsUpTo(CarPoints, MaxOrderCars)
    /\ quadrilateral = ParkingBoxCalibration /\ point = Point(0, 0)
    /\ src_points = <<>> /\ dst_points = <<>>

\* Query files for task1, a line being its code points: "1\n", " 2 \n",
\* "\t10\n", "\x0b1\n" (a vertical tab before the index), the blank line
\* "\n", "11\n" (beyond the ten parking spaces), "0\n", "x\n" (no number),
\* "1 0\n" (a blank inside), "\u0663\n" (the Arabic-Indic digit three) and
\* "\u00b2\n" (the superscript two, a digit that is no decimal digit).
QueryFileLines ==
    { <<49, 10>>, <<32, 50, 32, 10>>, <<9, 49, 48, 10>>, <<11, 49, 10>>,
      <<10>>, <<49, 49, 10>>, <<48, 10>>, <<120, 10>>, <<49, 32, 48, 10>>,
      <<1635, 10>>, <<178, 10>> }

\* What the detector finds in the image of task1.
TaskCarPoints == { Point(417, 230), Point(436, 249), Point(100, 50) }

InitTask1 ==
    /\ NoCallYet
    /\ PARKING_BOX = ParkingBoxCalibration
    /\ TRAFFIC_LIGHT_QUEUE = TrafficLightQueueCalibration
    /\ PARKING_LINES \in { ReferenceLines, <<0, 50>> }
    /\ car_points \in SeqsUpTo(TaskCarPoints, MaxTaskCars)
    /\ query_lines \in SeqsUpTo(QueryFileLines, MaxQueryLines)
    /\ quadrilateral = ParkingBoxCalibration /\ point = Point(0, 0)
    /\ src_points = <<>> /\ dst_points = <<>>
    /\ DriverIdle
    /\ VideoIdle

\* The items of a task folder: every name has at least one file.
FileItems ==
    { item \in [mp4 : BOOLEAN, jpg : BOOLEAN, txt : BOOLEAN,
                 readable : BOOLEAN,
                 query_error : {"none", "IndexError", "ValueError"}] :
        item.mp4 \/ item.jpg \/ item.txt }

\* task_to_results at the head of its loop over files_dict.
InitDriver ==
    /\ NoCallYet
    /\ task_name \in {"task1", "task2", "task3", "task4"}
    /\ files_dict \in SeqsUpTo(FileItems, MaxFiles)
    /\ file_idx = 1
    /\ driver_pc = "loop"
    /\ results = {}
    /\ PARKING_BOX = ParkingBoxCalibration
    /\ TRAFFIC_LIGHT_QUEUE = TrafficLightQueueCalibration
    /\ PARKING_LINES = ReferenceLines
    /\ car_points = <<>>
    /\ quadrilateral = ParkingBoxCalibration /\ point = Point(0, 0)
    /\ src_points = <<>> /\ dst_points = <<>>
    /\ query_lines = <<>>
    /\ VideoIdle

(***************************************************************************)
(* video_utils.py. A video says whether cv2.VideoCapture opens it, the     *)
(* frame count it declares (CAP_PROP_FRAME_COUNT) and how many of its      *)
(* frames can be read: cap.read() succeeds at the indices below            *)
(* `readable`. A frame is named by its index.                              *)
(***************************************************************************)
\* VideoUtils.get_last_frame(video_path): the outcome, with the state the
\* capture is left in.
get_last_frame(v) ==
    IF ~v.opens
    THEN [exc |-> "ValueError", val |-> NoFrame, cap |-> "none"]
    ELSE IF v.n_frames = 0
    THEN [exc |-> "ValueError", val |-> NoFrame, cap |-> "open"]
    ELSE IF ~(v.n_frames - 1 < v.readable)
    THEN [exc |-> "ValueError", val |-> NoFrame, cap |-> "released"]
    ELSE [exc |-> "none", val |-> v.n_frames - 1, cap |-> "released"]

\* Videos: the declared count and the readable frames vary independently.
Videos ==
    [opens : BOOLEAN, n_frames : 0..MaxFrames, readable : 0..MaxFrames]

\* task2 or task4 about to be called on a video.
InitVideo ==
    /\ NoCallYet
    /\ video \in Videos
    /\ cap = "none"
    /\ pc = "idle"
    /\ frame_idx = 0
    /\ last_frame = NoFrame
    /\ evaluated = <<>>
    /\ PARKING_BOX = ParkingBoxCalibration
    /\ TRAFFIC_LIGHT_QUEUE = TrafficLightQueueCalibration
    /\ PARKING_LINES = ReferenceLines
    /\ car_points = <<>>
    /\ quadrilateral = ParkingBoxCalibration /\ point = Point(0, 0)
    /\ src_points = <<>> /\ dst_points = <<>>
    /\ query_lines = <<>>
    /\ DriverIdle

\* A caller that makes several evaluations on one list and records them.
InitCalls ==
    /\ NoCallYet
    /\ PARKING_BOX = ParkingBoxCalibration
    /\ TRAFFIC_LIGHT_QUEUE = TrafficLightQueueCalibration
    /\ PARKING_LINES \in LineCalibrations
    /\ car_points \in SeqsUpTo(CarPoints, MaxCallCars)
    /\ quadrilateral = ParkingBoxCalibration /\ point = Point(0, 0)
    /\ src_points = <<>> /\ dst_points = <<>>
    /\ query_lines = <<>>
    /\ DriverIdle
    /\ VideoIdle

(***************************************************************************)
(* The operations.                                                         *)
(***************************************************************************)
\* quadrilateral.check_point_inside(point)
Call_check_point_inside ==
    /\ op' = "check_point_inside"
    /\ ret' = check_point_inside(quadrilateral, point)
    /\ UNCHANGED <<quadrilateral, point, src_points, dst_points, PARKING_BOX,
                   TRAFFIC_LIGHT_QUEUE, PARKING_LINES, car_points,
                   warped_car_points, calls, query_lines, driverVars,
                   videoVars>>

\* ImageUtils.warp_perspective(image, src_points, dst_points)
Call_warp_perspective ==
    /\ op' = "warp_perspective"
    /\ ret' = warp_perspective(src_points, dst_points)
    /\ UNCHANGED <<quadrilateral, point, src_points, dst_points, PARKING_BOX,
                   TRAFFIC_LIGHT_QUEUE, PARKING_LINES, car_points,
                   warped_car_points, calls, query_lines, driverVars,
                   videoVars>>

\* ImageProcessor.check_parking_spaces(image, car_points)
Call_check_parking_spaces_reversing_lines ==
    \E got \in { get_image_with_cars_from_quadrilateral(PARKING_BOX, car_points) } :
        /\ op' = "check_parking_spaces"
        /\ car_points' = got.sorted
        /\ warped_car_points' = got.val
        /\ PARKING_LINES' = Reverse(PARKING_LINES)
        /\ ret' = IF got.exc # "none" THEN Raise(got.exc)
                  ELSE Return(bands_occupied(PARKING_LINES, got.val))
        /\ UNCHANGED <<quadrilateral, point, src_points, dst_points,
                       PARKING_BOX, TRAFFIC_LIGHT_QUEUE>>

Call_check_parking_spaces ==
    \E got \in { get_image_with_cars_from_quadrilateral(PARKING_BOX, car_points) } :
        /\ op' = "check_parking_spaces"
        /\ car_points' = got.sorted
        /\ warped_car_points' = got.val
        /\ ret' = IF got.exc # "none" THEN Raise(got.exc)
                  ELSE Return(parking_spaces(PARKING_LINES, got.val))
        /\ UNCHANGED <<quadrilateral, point, src_points, dst_points,
                       PARKING_BOX, TRAFFIC_LIGHT_QUEUE, PARKING_LINES>>

\* The band policy of check_parking_spaces on the warped points the
\* extraction returned to it.
Call_parking_bands ==
    /\ op' = "parking_bands"
    /\ warped_car_points' \in SeqsUpTo(BandPoints, MaxBandPoints)
    /\ ret' = Return(parking_spaces(PARKING_LINES, warped_car_points'))
    /\ UNCHANGED <<quadrilateral, point, src_points, dst_points, PARKING_BOX,
                   TRAFFIC_LIGHT_QUEUE, PARKING_LINES, car_points, calls,
                   query_lines, driverVars, videoVars>>

\* The queue policy of count_cars_traffic_light_queue on the warped points
\* the extraction returned to it: the sort in place and the walk.
Call_queue_walk ==
    /\ op' = "queue_walk"
    /\ warped_car_points' = sort_by_y(warped_car_points)
    /\ ret' = Return(cars_in_queue(warped_car_points))
    /\ UNCHANGED <<quadrilateral, point, src_points, dst_points, PARKING_BOX,
                   TRAFFIC_LIGHT_QUEUE, PARKING_LINES, car_points, calls,
                   query_lines, driverVars, videoVars>>

\* task1(image_path, query_path), for a readable image in which the detector
\* finds the centres car_points.
Call_task1 ==
    \E got \in { get_image_with_cars_from_quadrilateral(PARKING_BOX, car_points) } :
        /\ op' = "task1"
        /\ car_points' = got.sorted
        /\ warped_car_points' = got.val
        /\ ret' = IF got.exc # "none" THEN Raise(got.exc)
                  ELSE task1_report(parking_spaces(PARKING_LINES, got.val),
                                    query_lines)
        /\ UNCHANGED <<quadrilateral, point, src_points, dst_points,
                       PARKING_BOX, TRAFFIC_LIGHT_QUEUE, PARKING_LINES, calls,
                       query_lines, driverVars, videoVars>>

\* image_processing.ImageProcessor.check_parking_spaces(image, car_points),
\* the copy of check_parking_spaces in the module main.py does not import:
\* it sorts car_points in place, filters them, and stops at its load_image
\* call with NameError, SELECTED_IMAGE being defined nowhere.
Call_image_processing_check_parking_spaces ==
    /\ op' = "image_processing.check_parking_spaces"
    /\ car_points' = sort_by_y(car_points)
    /\ warped_car_points' = <<>>
    /\ ret' = Raise("NameError")
    /\ UNCHANGED <<quadrilateral, point, src_points, dst_points, PARKING_BOX,
                   TRAFFIC_LIGHT_QUEUE, PARKING_LINES>>

\* ImageProcessor.count_cars_traffic_light_queue(image, car_points)
Call_count_cars_traffic_light_queue ==
    \E got \in { get_image_with_cars_from_quadrilateral(TRAFFIC_LIGHT_QUEUE,
                                                         car_points) } :
        /\ op' = "count_cars_traffic_light_queue"
        /\ car_points' = got.sorted
        /\ warped_car_points' = sort_by_y(got.val)
        /\ ret' = IF got.exc # "none" THEN Raise(got.exc)
                  ELSE Return(cars_in_queue(got.val))
        /\ UNCHANGED <<quadrilateral, point, src_points, dst_points,
                       PARKING_BOX, TRAFFIC_LIGHT_QUEUE, PARKING_LINES>>

\* The record of the evaluation that is being made: the list as it was
\* handed over and the outcome.
Recorded ==
    /\ Len(calls) < MaxCalls
    /\ calls' = Append(calls, [op |-> op', car_points |-> car_points,
                                ret |-> ret'])
    /\ UNCHANGED <<query_lines, driverVars, videoVars>>

\* One evaluation, by a caller that records it.
NextCalls ==
    \/ Call_check_parking_spaces /\ Recorded
    \/ Call_count_cars_traffic_light_queue /\ Recorded

\* task_to_results: one iteration of `for file_name in files_dict`.
\* The item has no image and no video: it is skipped.
task_to_results_skip ==
    /\ driver_pc = "loop" /\ file_idx <= Len(files_dict)
    /\ iteration_result(task_name, files_dict[file_idx]) = Return("no test file")
    /\ file_idx' = file_idx + 1
    /\ UNCHANGED <<evalVars, calls, query_lines, task_name, files_dict,
                   driver_pc, results, videoVars>>

\* The task returns: its result is saved unless it is None.
task_to_results_save ==
    /\ driver_pc = "loop" /\ file_idx <= Len(files_dict)
    /\ \E result \in { iteration_result(task_name, files_dict[file_idx]) } :
          /\ result.exc = "none"
          /\ result.val # "no test file"
          /\ results' = IF SAVE_TO_FOLDER_SWITCH /\ result.val # "None"
                        THEN results \cup {file_idx}
                        ELSE results
    /\ file_idx' = file_idx + 1
    /\ UNCHANGED <<evalVars, calls, query_lines, task_name, files_dict,
                   driver_pc, videoVars>>

\* The task raises: nothing in the loop catches the exception, which leaves
\* task_to_results.
task_to_results_raise ==
    /\ driver_pc = "loop" /\ file_idx <= Len(files_dict)
    /\ \E result \in { iteration_result(task_name, files_dict[file_idx]) } :
          /\ result.exc # "none"
          /\ op' = "task_to_results"
          /\ ret' = result
    /\ driver_pc' = "raised"
    /\ UNCHANGED <<quadrilateral, point, src_points, dst_points, PARKING_BOX,
                   TRAFFIC_LIGHT_QUEUE, PARKING_LINES, car_points,
                   warped_car_points, calls, query_lines, task_name,
                   files_dict, file_idx, results, videoVars>>

\* The loop is over: task_to_results returns.
task_to_results_return ==
    /\ driver_pc = "loop" /\ file_idx > Len(files_dict)
    /\ driver_pc' = "done"
    /\ UNCHANGED <<evalVars, calls, query_lines, task_name, files_dict,
                   file_idx, results, videoVars>>

NextDriver ==
    \/ task_to_results_skip
    \/ task_to_results_save
    \/ task_to_results_raise
    \/ task_to_results_return

\* task2: last_frame = None and the first step of the generator
\* read_video_frames, up to its loop: load_video raises when the capture
\* does not open.
task2_load_video ==
    /\ pc = "idle"
    /\ op' = "task2"
    /\ last_frame' = NoFrame
    /\ frame_idx' = 0
    /\ IF video.opens
       THEN /\ cap' = "open"
            /\ pc' = "task2_frames"
            /\ ret' = ret
       ELSE /\ cap' = cap
            /\ pc' = "done"
            /\ ret' = Raise("ValueError")
    /\ UNCHANGED <<quadrilateral, point, src_points, dst_points, PARKING_BOX,
                   TRAFFIC_LIGHT_QUEUE, PARKING_LINES, car_points,
                   warped_car_points, calls, query_lines, driverVars, video,
                   evaluated>>

\* read_video_frames yields the frame it read and task2 keeps it.
task2_keep_first_frame ==
    /\ pc = "task2_frames"
    /\ frame_idx < video.n_frames
    /\ frame_idx < video.readable
    /\ last_frame' = IF last_frame = NoFrame THEN frame_idx ELSE last_frame
    /\ frame_idx' = frame_idx + 1
    /\ UNCHANGED <<evalVars, calls, query_lines, driverVars, video, cap, pc,
                   evaluated>>

task2_yield_frame ==
    /\ pc = "task2_frames"
    /\ frame_idx < video.n_frames
    /\ frame_idx < video.readable
    /\ last_frame' = frame_idx
    /\ frame_idx' = frame_idx + 1
    /\ UNCHANGED <<evalVars, calls, query_lines, driverVars, video, cap, pc,
                   evaluated>>

\* read_video_frames ends, after n_frames reads or at a read that fails,
\* and releases the capture.
task2_frames_end ==
    /\ pc = "task2_frames"
    /\ ~(frame_idx < video.n_frames /\ frame_idx < video.readable)
    /\ cap' = "released"
    /\ pc' = "task2_evaluate"
    /\ UNCHANGED <<evalVars, calls, query_lines, driverVars, video, frame_idx,
                   last_frame, evaluated>>

\* task2 after its loop: the frame it kept is evaluated, or [] is returned.
task2_evaluate ==
    /\ pc = "task2_evaluate"
    /\ IF last_frame # NoFrame
       THEN /\ evaluated' = Append(evaluated, last_frame)
            /\ ret' = Return("parking_statuses")
       ELSE /\ evaluated' = evaluated
            /\ ret' = Return("[]")
    /\ pc' = "done"
    /\ UNCHANGED <<op, quadrilateral, point, src_points, dst_points,
                   PARKING_BOX, TRAFFIC_LIGHT_QUEUE, PARKING_LINES, car_points,
                   warped_car_points, calls, query_lines, driverVars, video,
                   cap, frame_idx, last_frame>>

\* task4(video_path): get_last_frame, then the evaluation of its frame.
Call_task4 ==
    /\ pc = "idle"
    /\ op' = "task4"
    /\ \E got \in { get_last_frame(video) } :
          /\ cap' = got.cap
          /\ last_frame' = got.val
          /\ IF got.exc = "none"
             THEN /\ evaluated' = Append(evaluated, got.val)
                  /\ ret' = Return("cars_in_queue")
             ELSE /\ evaluated' = evaluated
                  /\ ret' = Raise(got.exc)
    /\ pc' = "done"
    /\ UNCHANGED <<quadrilateral, point, src_points, dst_points, PARKING_BOX,
                   TRAFFIC_LIGHT_QUEUE, PARKING_LINES, car_points,
                   warped_car_points, calls, query_lines, driverVars, video,
                   frame_idx>>

NextVideo ==
    \/ task2_load_video
    \/ task2_yield_frame
    \/ task2_frames_end
    \/ task2_evaluate
    \/ Call_task4

\* One evaluation, by a caller that keeps no record of it.
Next ==
    \/ /\ Call_check_parking_spaces
       /\ UNCHANGED <<calls, query_lines, driverVars, videoVars>>
    \/ /\ Call_count_cars_traffic_light_queue
       /\ UNCHANGED <<calls, query_lines, driverVars, videoVars>>
    \/ /\ Call_image_processing_check_parking_spaces
       /\ UNCHANGED <<calls, query_lines, driverVars, videoVars>>

SpecInside == InitInside /\ [][Call_check_point_inside]_vars
SpecCentroid == InitCentroid /\ [][Call_check_point_inside]_vars
SpecWarp == InitWarp /\ [][Call_warp_perspective]_vars
Spec == Init /\ [][Next]_vars
SpecCalls == InitCalls /\ [][NextCalls]_vars
SpecBands == InitBands /\ [][Call_parking_bands]_vars
SpecOrder == InitOrder /\ [][Next]_vars
SpecTask1 == InitTask1 /\ [][Call_task1]_vars
SpecDriver == InitDriver /\ [][NextDriver]_vars
SpecVideo == InitVideo /\ [][NextVideo]_vars
SpecQueue == InitQueue /\ [][Call_queue_walk]_vars

(***************************************************************************)
(* Properties of check_parking_spaces and count_cars_traffic_light_queue,  *)
(* stated over the warped points of the evaluation (under Spec).           *)
(***************************************************************************)
WarpedYs == [k \in 1..Len(warped_car_points) |-> warped_car_points[k].y]

BandUpper(i) ==
    IF i < Len(PARKING_LINES) THEN PARKING_LINES[i + 1] ELSE 1000

BandHit(i) ==
    \E k \in 1..Len(WarpedYs) :
        PARKING_LINES[i] <= WarpedYs[k] /\ WarpedYs[k] <= BandUpper(i)

\* C1: check_parking_spaces returns one boolean per threshold, and the entry
\* of band i is true exactly when some warped point has
\* thresholds[i] <= y <= upper_i, both ends included, upper_i the next
\* threshold or 1000 for the last band.
C1_BandOccupancy ==
    op = "check_parking_spaces" =>
        /\ ret.exc = "none"
        /\ Len(ret.val) = Len(PARKING_LINES)
        /\ \A i \in 1..Len(PARKING_LINES) :
              ret.val[Len(PARKING_LINES) + 1 - i] = BandHit(i)

\* A warped point sits exactly on the threshold shared by two bands, which
\* are both occupied, while another band is free.
C1_Witness ==
    /\ op = "check_parking_spaces"
    /\ ret.exc = "none"
    /\ \E i \in 2..Len(PARKING_LINES) :
          /\ \E k \in 1..Len(WarpedYs) : WarpedYs[k] = PARKING_LINES[i]
          /\ ret.val[Len(PARKING_LINES) + 1 - i]
          /\ ret.val[Len(PARKING_LINES) + 2 - i]
    /\ \E j \in 1..Len(PARKING_LINES) : ~ret.val[j]

\* C2: the bands are reported in reversed order: position j of the result
\* holds band k+1-j (1-based), the last band first; bands [0, 50] with one
\* warped point at y = 10 give [false, true].
C2_ReversedOrder ==
    op = "check_parking_spaces" =>
        /\ ret.exc = "none"
        /\ ret.val[1] = BandHit(Len(PARKING_LINES))
        /\ \A j \in 1..Len(ret.val) :
              ret.val[j] = BandHit(Len(PARKING_LINES) + 1 - j)
        /\ (PARKING_LINES = <<0, 50>> /\ WarpedYs = <<10>>)
              => ret.val = <<FALSE, TRUE>>

C2_Witness ==
    /\ op = "check_parking_spaces"
    /\ PARKING_LINES = <<0, 50>>
    /\ WarpedYs = <<10>>
    /\ ret.exc = "none"
    /\ ret.val = <<FALSE, TRUE>>

\* The walk of C3 over the sorted ys: point i passes when its y is below 120
\* or less than 150 beyond the point before it (0 before the first).
QueuePasses(i) ==
    \/ WarpedYs[i] < 120
    \/ WarpedYs[i] - (IF i = 1 THEN 0 ELSE WarpedYs[i - 1]) < 150

\* C3: count_cars_traffic_light_queue sorts the warped points ascending by y
\* and returns the length of the longest prefix in which every point passes
\* (the walk stops at the first point that does not); ys [30, 100, 140, 400]
\* give 3.
C3_QueueWalk ==
    op = "count_cars_traffic_light_queue" =>
        /\ ret.exc = "none"
        /\ \A i, j \in 1..Len(WarpedYs) : i < j => WarpedYs[i] <= WarpedYs[j]
        /\ ret.val \in 0..Len(WarpedYs)
        /\ \A i \in 1..Len(WarpedYs) : i <= ret.val => QueuePasses(i)
        /\ ret.val < Len(WarpedYs) => ~QueuePasses(ret.val + 1)
        /\ WarpedYs = <<30, 100, 140, 400>> => ret.val = 3

C3_Witness ==
    /\ op = "count_cars_traffic_light_queue"
    /\ WarpedYs = <<30, 100, 140, 400>>
    /\ ret.exc = "none"
    /\ ret.val = 3

\* C4, as claimed: bands [10, 100, 192] with warped points at y = 5, 150,
\* 500 give [true, false, true] before the reversal and [true, false, true]
\* as the result.
C4_Original ==
    (/\ op = "check_parking_spaces"
     /\ PARKING_LINES = <<10, 100, 192>>
     /\ WarpedYs = <<5, 150, 500>>)
        => /\ ret.exc = "none"
           /\ bands_occupied(PARKING_LINES, warped_car_points)
                 = <<TRUE, FALSE, TRUE>>
           /\ ret.val = <<TRUE, FALSE, TRUE>>

\* C4, amended: for these bands and points the bands are
\* [false, true, true] before the reversal (y = 5 lies below the first
\* threshold, 150 in [100, 192], 500 in [192, 1000]) and the result is
\* [true, true, false].
C4_Amended ==
    (/\ op = "check_parking_spaces"
     /\ PARKING_LINES = <<10, 100, 192>>
     /\ WarpedYs = <<5, 150, 500>>)
        => /\ ret.exc = "none"
           /\ bands_occupied(PARKING_LINES, warped_car_points)
                 = <<FALSE, TRUE, TRUE>>
           /\ ret.val = <<TRUE, TRUE, FALSE>>

C4_Witness ==
    /\ op = "check_parking_spaces"
    /\ PARKING_LINES = <<10, 100, 192>>
    /\ WarpedYs = <<5, 150, 500>>
    /\ ret.exc = "none"
    /\ ret.val = <<TRUE, TRUE, FALSE>>

\* C5: with an empty list of car points check_parking_spaces returns false
\* for every band, as many as there are thresholds, and
\* count_cars_traffic_light_queue returns 0; neither raises.
C5_EmptyInput ==
    car_points = <<>> =>
        /\ op = "check_parking_spaces" =>
              /\ ret.exc = "none"
              /\ ret.val = [i \in 1..Len(PARKING_LINES) |-> FALSE]
        /\ op = "count_cars_traffic_light_queue" =>
              /\ ret.exc = "none"
              /\ ret.val = 0

C5_Witness ==
    /\ car_points = <<>>
    /\ op = "check_parking_spaces"
    /\ ret.exc = "none"
    /\ Len(ret.val) = Len(PARKING_LINES)
    /\ \A i \in 1..Len(ret.val) : ~ret.val[i]

(***************************************************************************)
(* Properties of Box.check_point_inside (under SpecInside, SpecCentroid).  *)
(***************************************************************************)
QuadCorners ==
    << quadrilateral.top_left, quadrilateral.top_right,
       quadrilateral.bottom_right, quadrilateral.bottom_left >>

\* a <= b, for ints of any size.
AtMost(a, b) == ~IntLess(b, a)

\* The point lies on edge i, which is horizontal: both end points have the
\* point's y and the point's x is within the edge's x-span.
OnHorizontalEdgeNo(i) ==
    LET a == quadrilateral.lines[i].start
        b == quadrilateral.lines[i].end
    IN  /\ a.y = point.y /\ b.y = point.y
        /\ \/ AtMost(a.x, point.x) /\ AtMost(point.x, b.x)
           \/ AtMost(b.x, point.x) /\ AtMost(point.x, a.x)

\* C6, as claimed: a point exactly on a horizontal edge of the
\* quadrilateral is inside, whichever of the four edges it is and whatever
\* the other edges are.
C6_Original ==
    (op = "check_point_inside" /\ \E i \in 1..4 : OnHorizontalEdgeNo(i))
        => (ret.exc = "none" /\ ret.val = TRUE)

\* a + b, for ints of any size.
IntAdd(a, b) == IntSub(a, DblNeg(b))

PointIsCentroid ==
    /\ IntMul(Scaled(4, 0), point.x) =
          IntAdd(IntAdd(QuadCorners[1].x, QuadCorners[2].x),
                 IntAdd(QuadCorners[3].x, QuadCorners[4].x))
    /\ IntMul(Scaled(4, 0), point.y) =
          IntAdd(IntAdd(QuadCorners[1].y, QuadCorners[2].y),
                 IntAdd(QuadCorners[3].y, QuadCorners[4].y))

Cross(o, a, b) == (a.x - o.x) * (b.y - o.y) - (a.y - o.y) * (b.x - o.x)

\* Three of the four points lie on one line (two equal points included).
ThreeCollinear(q) ==
    \E i, j, k \in 1..4 : i < j /\ j < k /\ Cross(q[i], q[j], q[k]) = 0

\* Cross for points with coordinates of any size.
Turn(o, a, b) ==
    IntSub(IntMul(IntSub(a.x, o.x), IntSub(b.y, o.y)),
           IntMul(IntSub(a.y, o.y), IntSub(b.x, o.x)))

\* Every corner turns the same way.
StrictlyConvex ==
    LET turn(i) == Turn(QuadCorners[i], QuadCorners[(i % 4) + 1],
                        QuadCorners[((i + 1) % 4) + 1])
    IN  \/ \A i \in 1..4 : IntLess(Zero, turn(i))
        \/ \A i \in 1..4 : IntLess(turn(i), Zero)

\* C7, as claimed, for the strictly convex quadrilaterals among the
\* well-formed ones, whose centroid lies strictly within the region (and
\* for those whose corner mean is a point of the grid): check_point_inside
\* returns true for the point at the centroid (mean of the four corners).
C7_Original ==
    (op = "check_point_inside" /\ PointIsCentroid /\ StrictlyConvex)
        => (ret.exc = "none" /\ ret.val = TRUE)

OutsideBoundingBox ==
    \/ \A i \in 1..4 : IntLess(point.x, QuadCorners[i].x)
    \/ \A i \in 1..4 : IntLess(QuadCorners[i].x, point.x)
    \/ \A i \in 1..4 : IntLess(point.y, QuadCorners[i].y)
    \/ \A i \in 1..4 : IntLess(QuadCorners[i].y, point.y)

\* C8, as claimed, for the calls that return: a point outside the
\* axis-aligned bounding box of the four corners is outside, also to the
\* left of the region, where every straddling edge toggles the parity flag.
C8_Original ==
    (op = "check_point_inside" /\ OutsideBoundingBox /\ ret.exc = "none")
        => ret.val = FALSE

\* C9, as claimed: check_point_inside returns a boolean and never raises,
\* for every quadrilateral and every integer point.
C9_Original ==
    op = "check_point_inside" => (ret.exc = "none" /\ ret.val \in BOOLEAN)

(***************************************************************************)
(* Properties of ImageUtils.warp_perspective (under SpecWarp).             *)
(***************************************************************************)
\* C10, as claimed: warp_perspective fails whenever the source list or the
\* destination list passed to it does not have exactly 4 points.
C10_Original ==
    (op = "warp_perspective" /\ (Len(src_points) # 4 \/ Len(dst_points) # 4))
        => ret.exc = "ValueError"

\* C10, amended: warp_perspective raises ValueError, and returns no matrix,
\* whenever the source list does not have exactly 4 points or the
\* destination list has neither 0 nor 4 points; an empty destination list
\* is accepted with 4 source points and stands for the default corners.
C10_Amended ==
    op = "warp_perspective" =>
        /\ (Len(src_points) # 4 \/ Len(dst_points) \notin {0, 4})
              => ret = Raise("ValueError")
        /\ (Len(src_points) = 4 /\ Len(dst_points) = 0)
              => /\ ret.exc = "none"
                 /\ ret.val = getPerspectiveTransform(float32(src_points),
                                                      float32(DefaultDstPoints))

C10_Witness ==
    /\ op = "warp_perspective"
    /\ Len(src_points) = 4
    /\ Len(dst_points) \notin {0, 4}
    /\ ret.exc = "ValueError"

\* C11, as claimed: warp_perspective called with four source corners of which
\* three are collinear (and a destination list it accepts) fails with a
\* DegenerateConfiguration error and returns no matrix.
C11_Original ==
    (/\ op = "warp_perspective"
     /\ Len(src_points) = 4
     /\ ThreeCollinear(src_points)
     /\ Len(dst_points) \in {0, 4})
        => ret.exc = "DegenerateConfiguration"

(***************************************************************************)
(* Effects of the evaluations on their inputs (under Spec).                *)
(***************************************************************************)
\* C12, as claimed: get_image_with_cars_from_quadrilateral leaves the
\* caller's list of car points as it was, contents and order, in every call
\* of check_parking_spaces and count_cars_traffic_light_queue.
C12_Original == [][car_points' = car_points]_vars

(***************************************************************************)
(* Evaluations in sequence (under SpecCalls).                              *)
(***************************************************************************)
SameCallSameResult ==
    \A i, j \in 1..Len(calls) :
        (calls[i].op = calls[j].op /\ calls[i].car_points = calls[j].car_points)
            => calls[i].ret = calls[j].ret

\* C13: no state carries across evaluations: every call leaves PARKING_BOX,
\* TRAFFIC_LIGHT_QUEUE and PARKING_LINES as they were, and two calls of the
\* same evaluation on the same list of car points give the same result,
\* whatever calls were made before each.
C13_NoStateAcrossCalls ==
    /\ [][/\ PARKING_BOX' = PARKING_BOX
          /\ TRAFFIC_LIGHT_QUEUE' = TRAFFIC_LIGHT_QUEUE
          /\ PARKING_LINES' = PARKING_LINES]_vars
    /\ []SameCallSameResult

\* check_parking_spaces, count_cars_traffic_light_queue and
\* check_parking_spaces again on one list, with an occupied and a free band.
C13_Witness ==
    /\ Len(calls) = 3
    /\ calls[1].op = "check_parking_spaces"
    /\ calls[2].op = "count_cars_traffic_light_queue"
    /\ calls[3].op = "check_parking_spaces"
    /\ calls[1].car_points = calls[3].car_points
    /\ calls[1].ret.exc = "none"
    /\ \E i, j \in 1..Len(calls[1].ret.val) :
          calls[1].ret.val[i] /\ ~calls[1].ret.val[j]
    /\ calls[3].ret = calls[1].ret

(***************************************************************************)
(* The band policy on its own (under SpecBands).                           *)
(***************************************************************************)
\* The bands the result reports occupied, by band number.
BandsReported ==
    { i \in 1..Len(PARKING_LINES) : ret.val[Len(PARKING_LINES) + 1 - i] }

\* C14, as claimed: a single warped point sets at most one band to true, for
\* every y and every list of strictly increasing thresholds.
C14_Original ==
    (op = "parking_bands" /\ Len(warped_car_points) = 1)
        => (ret.exc = "none" /\ Cardinality(BandsReported) <= 1)

\* C14, amended: a single warped point sets at most two bands to true, and
\* two only when its y equals the threshold two adjacent bands share, which
\* are then the two bands set.
C14_Amended ==
    (op = "parking_bands" /\ Len(warped_car_points) = 1)
        => /\ ret.exc = "none"
           /\ Cardinality(BandsReported) <= 2
           /\ Cardinality(BandsReported) = 2 =>
                 \E i \in 2..Len(PARKING_LINES) :
                     /\ PARKING_LINES[i] = warped_car_points[1].y
                     /\ BandsReported = {i - 1, i}

C14_Witness ==
    /\ op = "parking_bands"
    /\ Len(warped_car_points) = 1
    /\ Len(PARKING_LINES) >= 3
    /\ ret.exc = "none"
    /\ Cardinality(BandsReported) = 2

\* Point k alone satisfies the test of band i.
PointInBand(k, i) == occupied(PARKING_LINES, i, <<warped_car_points[k]>>)

\* C15: a warped point satisfies the tests of two adjacent bands only when
\* its y equals their shared threshold, and a point at a shared threshold
\* has both bands reported occupied; no point satisfies the tests of two
\* bands that are not adjacent.
C15_SharedBoundary ==
    op = "parking_bands" =>
        /\ ret.exc = "none"
        /\ \A k \in 1..Len(warped_car_points) :
           \A i, j \in 1..Len(PARKING_LINES) :
              /\ (i < j /\ PointInBand(k, i) /\ PointInBand(k, j))
                    => (j = i + 1 /\ warped_car_points[k].y = PARKING_LINES[j])
              /\ (j = i + 1 /\ warped_car_points[k].y = PARKING_LINES[j])
                    => (i \in BandsReported /\ j \in BandsReported)

\* Two points: one on a shared threshold, one that sets no band; a third
\* band stays free.
C15_Witness ==
    /\ op = "parking_bands"
    /\ Len(warped_car_points) = 2
    /\ Len(PARKING_LINES) >= 3
    /\ ret.exc = "none"
    /\ \E i \in 2..Len(PARKING_LINES) :
          /\ warped_car_points[1].y = PARKING_LINES[i]
          /\ BandsReported = {i - 1, i}
    /\ \A i \in 1..Len(PARKING_LINES) : ~PointInBand(2, i)

(***************************************************************************)
(* The order of the car points (under SpecOrder).                          *)
(***************************************************************************)
\* The rearrangements of the positions 1..n.
IndexPermutations ==
    [n \in 0..MaxOrderCars |->
        { f \in [1..n -> 1..n] : \A i, j \in 1..n : f[i] = f[j] => i = j }]

\* The lists that hold the car points of the call in some order.
Rearrangements ==
    { [i \in 1..Len(car_points) |-> car_points[f[i]]] :
        f \in IndexPermutations[Len(car_points)] }

\* C16: the order of the car points does not affect the result: the outcome
\* of check_parking_spaces, and of count_cars_traffic_light_queue, on a list
\* is the outcome on every permutation of that list.
C16_OrderIrrelevant ==
    /\ op = "check_parking_spaces" =>
          \A q \in Rearrangements :
              \E got \in { get_image_with_cars_from_quadrilateral(PARKING_BOX, q) } :
                  /\ got.exc = ret.exc
                  /\ got.exc = "none" =>
                        ret.val = parking_spaces(PARKING_LINES, got.val)
    /\ op = "count_cars_traffic_light_queue" =>
          \A q \in Rearrangements :
              \E got \in { get_image_with_cars_from_quadrilateral(
                               TRAFFIC_LIGHT_QUEUE, q) } :
                  /\ got.exc = ret.exc
                  /\ got.exc = "none" => ret.val = cars_in_queue(got.val)

\* A queue of two counted cars and one beyond the gap, all at different
\* distances, so that the orders of the list give six different walks if
\* the points are not sorted.
C16_Witness ==
    /\ op = "count_cars_traffic_light_queue"
    /\ Len(car_points) = 3
    /\ \A i, j \in 1..3 : i < j => car_points[i].y < car_points[j].y
    /\ Len(warped_car_points) = 3
    /\ ret.exc = "none"
    /\ ret.val = 2

(***************************************************************************)
(* The extraction's filter (under Spec).                                   *)
(***************************************************************************)
\* The region of the evaluation that ran last.
RegionOfCall ==
    IF op = "check_parking_spaces" THEN PARKING_BOX ELSE TRAFFIC_LIGHT_QUEUE

\* check_point_inside of each region for each point the detector finds.
InsideOfRegion ==
    [q \in RegionCalibrations |->
        [p \in CarPoints |-> check_point_inside(IntBox(q), IntPoint(p))]]

\* The positions of the caller's list, as the call left it, whose point is
\* inside the region.
InsidePositions ==
    { k \in 1..Len(car_points) :
        InsideOfRegion[RegionOfCall][car_points[k]] = Return(TRUE) }

\* C19: the warped points correspond one-to-one to the car points for which
\* check_point_inside of the region is true: there is a pairing of the
\* inside positions with the warped points in which every warped point is
\* the image of its car point under the region's warp matrix, and no point
\* outside the region has a warped point.
C19_FilterOneToOne ==
    op \in {"check_parking_spaces", "count_cars_traffic_light_queue"} =>
        /\ ret.exc = "none"
        /\ Len(warped_car_points) = Cardinality(InsidePositions)
        /\ \E f \in [1..Len(warped_car_points) -> InsidePositions] :
              /\ \A i, j \in 1..Len(warped_car_points) : f[i] = f[j] => i = j
              /\ \A i \in 1..Len(warped_car_points) :
                    Return(warped_car_points[i]) =
                        region_warped(RegionOfCall,
                                      region_warp(RegionOfCall).val,
                                      car_points[f[i]])

\* Two points inside the region and one outside it.
C19_Witness ==
    /\ op = "check_parking_spaces"
    /\ Len(car_points) = 3
    /\ Cardinality(InsidePositions) = 2
    /\ Len(warped_car_points) = 2
    /\ ret.exc = "none"

(***************************************************************************)
(* The report of task1 (under SpecTask1).                                  *)
(***************************************************************************)
\* The lines of the query file that are not blank, without their blanks and
\* line ends.
QueryEntries ==
    LET Content(line) == { i \in 1..Len(line) : line[i] \notin Whitespace }
        HasContent(line) == Content(line) # {}
        First(line) == CHOOSE i \in Content(line) : \A j \in Content(line) : i <= j
        Last(line) == CHOOSE i \in Content(line) : \A j \in Content(line) : j <= i
        kept == SelectSeq(query_lines, HasContent)
    IN  [k \in 1..Len(kept) |-> SubSeq(kept[k], First(kept[k]), Last(kept[k]))]

\* The value of a decimal digit, ASCII or Arabic-Indic; -1 for every other
\* character.
DigitOf(c) ==
    IF c \in 48..57 THEN c - 48
    ELSE IF c \in 1632..1641 THEN c - 1632
    ELSE -1

\* The number an entry writes in decimal digits; -1 for an entry that is
\* not a string of decimal digits.
RECURSIVE QueryNumber(_)
QueryNumber(entry) ==
    IF \E i \in 1..Len(entry) : DigitOf(entry[i]) < 0 THEN -1
    ELSE IF Len(entry) = 1 THEN DigitOf(entry[1])
    ELSE 10 * QueryNumber(SubSeq(entry, 1, Len(entry) - 1))
            + DigitOf(entry[Len(entry)])

\* The exception a query has task1 raise: ValueError for a string of digits
\* (str.isdigit) with a digit int() does not take, a superscript two or
\* three or one; IndexError for a number beyond the number of parking
\* spaces; "none" for every other query.
QueryError(entry) ==
    IF /\ \A i \in 1..Len(entry) :
             DigitOf(entry[i]) >= 0 \/ entry[i] \in {178, 179, 185}
       /\ \E i \in 1..Len(entry) : DigitOf(entry[i]) < 0
    THEN "ValueError"
    ELSE IF QueryNumber(entry) > Len(PARKING_LINES) THEN "IndexError"
    ELSE "none"

\* Query k holds a parking-space index.
HoldsIndex(k) == QueryNumber(QueryEntries[k]) \in 1..Len(PARKING_LINES)

\* The call has returned the first line followed, for every later query in
\* the order of the file, by the query, a blank and a status 1 or 0, which
\* for a query holding a parking-space index q is 1 when entry q-1 of the
\* returned list, the band q counted back from the last threshold, is
\* occupied and 0 when it is free.
Task1Reported ==
    /\ ret.exc = "none"
    /\ \E status \in [2..Len(QueryEntries) -> {48, 49}] :
          /\ ret.val = QueryEntries[1] \o
                join([k \in 1..(Len(QueryEntries) - 1) |->
                         QueryEntries[k + 1] \o <<32, status[k + 1]>>])
          /\ \A k \in 2..Len(QueryEntries) :
                HoldsIndex(k) =>
                    status[k] =
                        IF BandHit(Len(PARKING_LINES) + 1
                                     - QueryNumber(QueryEntries[k]))
                        THEN 49 ELSE 48

\* C20, as claimed: task1 keeps the first line of the query file and, for
\* every later query holding a parking-space index q in 1..number of
\* spaces, reports q followed by 1 if entry q-1 of the list
\* check_parking_spaces returned is occupied and 0 if it is free, one entry
\* per query, whatever the other queries of the file are.
C20_Original ==
    (op = "task1" /\ \E k \in 2..Len(QueryEntries) : HoldsIndex(k))
        => Task1Reported

\* C20, amended: when a later query is a string of digits that int() does
\* not take or a number beyond the number of parking spaces, task1 raises
\* the exception of the first such query, ValueError or IndexError, and
\* reports nothing; for every other query file with a first line it keeps
\* the first line and reports every later query holding a parking-space
\* index q with the status of entry q-1, one entry per query in the order
\* of the file.
C20_Amended ==
    (op = "task1" /\ QueryEntries # <<>>) =>
        LET failing == { k \in 2..Len(QueryEntries) :
                            QueryError(QueryEntries[k]) # "none" }
        IN  IF failing # {}
            THEN ret = Raise(QueryError(QueryEntries[
                          CHOOSE k \in failing : \A j \in failing : k <= j]))
            ELSE Task1Reported

\* A count, a query that is no number and a query for an occupied space.
C20_Witness ==
    /\ op = "task1"
    /\ Len(QueryEntries) = 3
    /\ QueryEntries[2] = <<120>>
    /\ HoldsIndex(3)
    /\ BandHit(Len(PARKING_LINES) + 1 - QueryNumber(QueryEntries[3]))
    /\ ret.exc = "none"
    /\ SubSeq(ret.val, Len(ret.val) - 1, Len(ret.val)) = <<32, 49>>

(***************************************************************************)
(* The batch driver (under SpecDriver).                                    *)
(***************************************************************************)
\* C17, as claimed: when the evaluation of an item raises, the item is
\* skipped and the remaining items are still processed: no run ends on an
\* exception, and a run that has ended has been through every item.
C17_Original ==
    /\ driver_pc # "raised"
    /\ driver_pc = "done" => file_idx > Len(files_dict)

(***************************************************************************)
(* The frame a video task evaluates (under SpecVideo).                     *)
(***************************************************************************)
\* The frames read_video_frames yields: those before n_frames and before
\* the first read that fails.
FramesYielded == Min2(video.n_frames, video.readable)

\* C18, as claimed: for every video a task evaluates exactly one frame:
\* task2 the final frame of the frame sequence, task4 the frame at index
\* n_frames - 1.
C18_Original ==
    (pc = "done" /\ video.opens) =>
        /\ Len(evaluated) = 1
        /\ op = "task2" => evaluated[1] = FramesYielded - 1
        /\ op = "task4" => evaluated[1] = video.n_frames - 1

\* C18, amended: a task evaluates at most one frame. task2 evaluates the
\* final frame of the sequence read_video_frames yields (the frame before
\* the first failing read, or at index n_frames - 1) when the sequence is
\* not empty, and evaluates nothing and returns an empty result when it is.
\* task4 evaluates the frame at index n_frames - 1 when n_frames > 0 and
\* that frame can be read, and raises ValueError without evaluating a frame
\* otherwise.
C18_Amended ==
    (pc = "done" /\ video.opens) =>
        /\ op = "task2" =>
              IF FramesYielded > 0
              THEN evaluated = <<FramesYielded - 1>>
                   /\ ret = Return("parking_statuses")
              ELSE evaluated = <<>> /\ ret = Return("[]")
        /\ op = "task4" =>
              IF video.n_frames > 0 /\ video.readable >= video.n_frames
              THEN evaluated = <<video.n_frames - 1>>
                   /\ ret = Return("cars_in_queue")
              ELSE evaluated = <<>> /\ ret = Raise("ValueError")

\* task2 on a video whose third read fails although more frames are
\* declared: the second frame is evaluated.
C18_Witness ==
    /\ pc = "done"
    /\ op = "task2"
    /\ video.opens
    /\ video.readable = 2
    /\ video.n_frames > 2
    /\ evaluated = <<1>>

(***************************************************************************)
(* The queue walk as a function of the warped points (under SpecQueue).    *)
(***************************************************************************)
\* The variant of the walk that skips a rejected point and goes on with the
\* later ones.
RECURSIVE queue_walk_skipping(_, _, _, _)
queue_walk_skipping(sorted, i, last_y, n) ==
    IF i > Len(sorted) THEN n
    ELSE IF sorted[i].y < NearThreshold \/ sorted[i].y - last_y < GapThreshold
         THEN queue_walk_skipping(sorted, i + 1, sorted[i].y, n + 1)
         ELSE queue_walk_skipping(sorted, i + 1, last_y, n)

\* C21: stopping at the first rejected point is equivalent to skipping it:
\* the count of the walk is the count of the variant that skips a rejected
\* point and continues, on the same points sorted ascending by y.
C21_StopIsSkip ==
    op = "queue_walk" =>
        /\ ret.exc = "none"
        /\ ret.val = queue_walk_skipping(warped_car_points, 1, 0, 0)

\* A walk that rejects a point and has later points it never looks at.
C21_Witness ==
    /\ op = "queue_walk"
    /\ Len(warped_car_points) = 3
    /\ warped_car_points[2].y = 2 * GapThreshold - 1
    /\ warped_car_points[3].y = FarEdge
    /\ ret.val = 1

\* The lists obtained from the warped points of the call by leaving some
\* positions out.
Sublists ==
    { [i \in 1..Cardinality(keep) |->
          warped_car_points[CHOOSE k \in keep :
                                Cardinality({j \in keep : j < k}) = i - 1]] :
        keep \in SUBSET (1..Len(warped_car_points)) }

\* C22: adding detections never shortens the queue: when every warped point
\* has its y in 0..FarEdge, the count is at least the count on each list
\* with some of the points left out, and it lies between 0 and the number
\* of points.
C22_AddingNeverShortens ==
    (/\ op = "queue_walk"
     /\ \A i \in 1..Len(warped_car_points) :
           warped_car_points[i].y \in 0..FarEdge) =>
        /\ ret.exc = "none"
        /\ 0 <= ret.val /\ ret.val <= Len(warped_car_points)
        /\ \A P \in Sublists : cars_in_queue(P) <= ret.val

\* Three cars in a chain of gaps below GapThreshold are all counted, and
\* without the middle one only the first is.
C22_Witness ==
    /\ op = "queue_walk"
    /\ warped_car_points =
          << Point(0, 0), Point(0, GapThreshold - 1),
             Point(0, 2 * GapThreshold - 2) >>
    /\ ret.val = 3
    /\ cars_in_queue(<< Point(0, 0), Point(0, 2 * GapThreshold - 2) >>) = 1

(***************************************************************************)
(* The capture of get_last_frame (under SpecVideo).                        *)
(***************************************************************************)
\* C23, as claimed: every call of get_last_frame that opens the capture has
\* released it when the call returns or raises: after a successful read,
\* for a video with zero frames and after a failed read of the last frame.
C23_Original ==
    (op = "task4" /\ pc = "done" /\ video.opens) => cap = "released"

====
